---------------------------- MODULE Spec2Model ----------------------------
(***************************************************************************)
(* A model of the ignis JVM: the interpreter's stack frame, the opcode     *)
(* handlers and their dispatcher, the executor loop, the heap's arrays,    *)
(* the class file's constant pool and the class file header.               *)
(*                                                                         *)
(* Conventions.                                                            *)
(*  - An i32 is a TLA+ integer in -2^31 .. 2^31-1.  A 64-bit value is its   *)
(*    bit pattern in four 16-bit limbs, least significant first; a 32-bit  *)
(*    float is its bit pattern in two limbs and a 64-bit float in four.    *)
(*  - Rust's 0-based index i is position i+1 of a TLA+ sequence.            *)
(*  - A call returns a record [f, r, v]: the frame it leaves, its status   *)
(*    ("Ok", an error's name, or a panic) and the value it yields as a     *)
(*    sequence (<<>> for none).                                            *)
(*  - A usize that wrapped below zero is kept as the negative integer      *)
(*    congruent to it modulo 2^64.                                         *)
(***************************************************************************)
EXTENDS Integers, Sequences, FiniteSets, TLC

VARIABLES
    frames,           \* StackFrames.frames of the running execute()
    last,             \* execute()'s vector of return values
    objects,          \* Heap.objects: handle -> HeapValue
    HEAP_ID,          \* the handle counter
    METHOD_AREA,      \* the OnceCell of the method area
    threads,          \* each thread's call in progress: [pc, fn, arg, local]
    entries,          \* ConstantPool.entries
    reader,           \* the class file reader: [buff, pos]
    classfile,        \* what Classfile::new has decoded so far
    call,             \* the last call made and its arguments
    result,           \* what that call returned: [r, v]
    build             \* the build: [overflow_checks, target_endian]

vars == <<frames, last, objects, HEAP_ID, METHOD_AREA, threads, entries,
          reader, classfile, call, result, build>>

frameVars == <<frames, last>>
heapVars == <<objects, HEAP_ID>>
areaVars == <<METHOD_AREA, threads>>
classVars == <<entries, reader, classfile>>

\* Whether integer overflow panics (a debug build) or wraps (a release
\* build), and the byte order of the target.
overflow_checks == build.overflow_checks
target_endian == build.target_endian

\* The targets taken are the little-endian ones.
Builds == [overflow_checks : BOOLEAN, target_endian : {"little"}]

-----------------------------------------------------------------------------
(* Machine integers.                                                       *)

Limb == 2^16
HalfLimb == 2^15

Lo16(v) == v % Limb
Hi16(v) == ((v - (v % Limb)) \div Limb) % Limb

\* The i32 whose bit pattern is hi:lo.
I32(lo, hi) == (IF hi >= HalfLimb THEN hi - Limb ELSE hi) * Limb + lo

MIN32 == I32(0, 2^15)
MAX32 == I32(2^16 - 1, 2^15 - 1)

SignLimb(top) == IF top >= HalfLimb THEN Limb - 1 ELSE 0

RECURSIVE BitOr(_, _, _)
BitOr(a, b, n) ==
    IF n = 0 THEN 0
    ELSE (IF a % 2 = 1 \/ b % 2 = 1 THEN 1 ELSE 0)
         + 2 * BitOr(a \div 2, b \div 2, n - 1)

\* x | y on 64-bit patterns.
i64_or(x, y) == [k \in 1..4 |-> BitOr(x[k], y[k], 16)]

\* `x as i32`: the low 32 bits.
i64_as_i32(x) == I32(x[1], x[2])

\* `x >> 32` on an i64: arithmetic shift.
i64_shr32(x) == <<x[3], x[4], SignLimb(x[4]), SignLimb(x[4])>>

\* `x << 32` on an i64.
i64_shl32(x) == <<0, 0, x[1], x[2]>>

\* `v as i64`: sign extension.
i32_as_i64(v) == <<Lo16(v), Hi16(v), SignLimb(Hi16(v)), SignLimb(Hi16(v))>>

\* `v as u32 as i64`: zero extension.
i32_as_u32_as_i64(v) == <<Lo16(v), Hi16(v), 0, 0>>

\* f32::to_bits() as i32, and f32::from_bits(v as u32).
f32_to_bits_as_i32(b) == I32(b[1], b[2])
f32_from_bits(v) == <<Lo16(v), Hi16(v)>>

\* f64::to_bits() as i64, and f64::from_bits(v as u64): the same 64 bits.
f64_to_bits_as_i64(b) == <<b[1], b[2], b[3], b[4]>>
f64_from_bits(x) == <<x[1], x[2], x[3], x[4]>>

from_i32_to_i64_sign_extending(l, h) ==
    i64_or(i64_shl32(i32_as_i64(h)), i32_as_i64(l))

from_i32_to_i64(l, h) ==
    i64_or(i64_shl32(i32_as_i64(h)), i32_as_u32_as_i64(l))

-----------------------------------------------------------------------------
(* Arithmetic on bit patterns: a sequence of 16-bit limbs, least           *)
(* significant first (two limbs for 32 bits, four for 64).                 *)

ToLimbs(v) == <<Lo16(v), Hi16(v)>>
FromLimbs(x) == I32(x[1], x[2])

Zero(n) == [k \in 1..n |-> 0]
One(n) == [k \in 1..n |-> IF k = 1 THEN 1 ELSE 0]

IsNegative(x) == x[Len(x)] >= HalfLimb

RECURSIVE AddLimbs(_, _, _)
AddLimbs(x, y, carry) ==
    IF x = <<>> THEN <<>>
    ELSE LET s == Head(x) + Head(y) + carry
         IN  <<s % Limb>> \o AddLimbs(Tail(x), Tail(y), s \div Limb)

NotLimbs(x) == [k \in 1..Len(x) |-> Limb - 1 - x[k]]

wrapping_add(x, y) == AddLimbs(x, y, 0)
\* A subtraction that takes its operands the other way round.
wrapping_sub_reversed(x, y) == AddLimbs(y, NotLimbs(x), 1)

wrapping_sub(x, y) == AddLimbs(x, NotLimbs(y), 1)
wrapping_neg(x) == AddLimbs(NotLimbs(x), Zero(Len(x)), 1)

\* The bytes of a pattern, least significant first, and back.
ToBytes(x) ==
    [k \in 1..(2 * Len(x)) |->
        IF k % 2 = 1 THEN x[(k + 1) \div 2] % 256
                     ELSE x[k \div 2] \div 256]
FromBytes(b) ==
    [k \in 1..(Len(b) \div 2) |-> b[2 * k - 1] + 256 * b[2 * k]]

\* Sum of a[i] * b[k + 1 - i] for i in 1..i: one column of the long
\* multiplication.
RECURSIVE Column(_, _, _, _)
Column(a, b, k, i) ==
    IF i = 0 THEN 0 ELSE a[i] * b[k + 1 - i] + Column(a, b, k, i - 1)

RECURSIVE MulBytes(_, _, _, _)
MulBytes(a, b, k, carry) ==
    IF k > Len(a) THEN <<>>
    ELSE LET s == Column(a, b, k, k) + carry
         IN  <<s % 256>> \o MulBytes(a, b, k + 1, s \div 256)

wrapping_mul(x, y) == FromBytes(MulBytes(ToBytes(x), ToBytes(y), 1, 0))

\* Bit i (0 = least significant) of a pattern.
BitAt(x, i) == (x[(i \div 16) + 1] \div (2 ^ (i % 16))) % 2

\* One position to the left, `bit` coming in at the bottom.
RECURSIVE Shl1(_, _)
Shl1(x, bit) ==
    IF x = <<>> THEN <<>>
    ELSE <<(2 * Head(x) + bit) % Limb>>
             \o Shl1(Tail(x), (2 * Head(x)) \div Limb)

\* x << n for n in 0..(bits - 1): limb k takes its bits from limbs k - n/16
\* and k - n/16 - 1.
ShiftLeft(x, n) ==
    LET q == n \div 16
        r == n % 16
        at(k) == IF k < 1 THEN 0 ELSE x[k]
    IN  [k \in 1..Len(x) |->
            ((at(k - q) * (2 ^ r)) % Limb) + (at(k - q - 1) \div (2 ^ (16 - r)))]

\* x >> n with `fill` (0 or 1) coming in at the top.
ShiftRightFill(x, n, fill) ==
    LET q == n \div 16
        r == n % 16
        at(k) == IF k > Len(x) THEN fill * (Limb - 1) ELSE x[k]
    IN  [k \in 1..Len(x) |->
            (at(k + q) \div (2 ^ r)) + ((at(k + q + 1) % (2 ^ r)) * (2 ^ (16 - r)))]

\* Arithmetic shift: the sign bit comes in.
ShiftRight(x, n) == ShiftRightFill(x, n, IF IsNegative(x) THEN 1 ELSE 0)

\* Logical shift: zero comes in.
UnsignedShiftRight(x, n) == ShiftRightFill(x, n, 0)

\* x >= y as unsigned numbers.
RECURSIVE GeU(_, _, _)
GeU(x, y, k) ==
    IF k = 0 THEN TRUE
    ELSE IF x[k] # y[k] THEN x[k] > y[k] ELSE GeU(x, y, k - 1)

\* Unsigned long division, one bit of the dividend at a time from the top:
\* [q, r] with n = q * d + r.  (q has a limb at least: asking it keeps the
\* quotient evaluated bit by bit.)
RECURSIVE UDivRem(_, _, _, _, _)
UDivRem(n, d, i, q, r) ==
    IF i < 0 \/ q = <<>> THEN [q |-> q, r |-> r]
    ELSE LET r2 == Shl1(r, BitAt(n, i))
         IN  IF GeU(r2, d, Len(d))
             THEN UDivRem(n, d, i - 1, Shl1(q, 1), wrapping_sub(r2, d))
             ELSE UDivRem(n, d, i - 1, Shl1(q, 0), r2)

Magnitude(x) == IF IsNegative(x) THEN wrapping_neg(x) ELSE x

\* Truncating signed division; iN::MIN / -1 wraps to iN::MIN.  The divisor
\* is not zero.
wrapping_div(x, y) ==
    LET n == Len(x)
        d == UDivRem(Magnitude(x), Magnitude(y), 16 * n - 1, Zero(n), Zero(n))
    IN  IF IsNegative(x) # IsNegative(y) THEN wrapping_neg(d.q) ELSE d.q

\* The remainder takes the sign of the dividend; iN::MIN % -1 is 0.
wrapping_rem(x, y) ==
    LET n == Len(x)
        d == UDivRem(Magnitude(x), Magnitude(y), 16 * n - 1, Zero(n), Zero(n))
    IN  IF IsNegative(x) THEN wrapping_neg(d.r) ELSE d.r

RECURSIVE BitOp(_, _, _, _)
BitOp(op, a, b, n) ==
    IF n = 0 THEN 0
    ELSE LET p == a % 2
             q == b % 2
             bit == CASE op = "and" -> IF p = 1 /\ q = 1 THEN 1 ELSE 0
                      [] op = "or" -> IF p = 1 \/ q = 1 THEN 1 ELSE 0
                      [] op = "xor" -> IF p # q THEN 1 ELSE 0
         IN  bit + 2 * BitOp(op, a \div 2, b \div 2, n - 1)

bitand(x, y) == [k \in 1..Len(x) |-> BitOp("and", x[k], y[k], 16)]
bitor(x, y) == [k \in 1..Len(x) |-> BitOp("or", x[k], y[k], 16)]
bitxor(x, y) == [k \in 1..Len(x) |-> BitOp("xor", x[k], y[k], 16)]

\* x < y, x = y as signed numbers.
SignedKey(x) == [x EXCEPT ![Len(x)] = (@ + HalfLimb) % Limb]
LessThan(x, y) == ~GeU(SignedKey(x), SignedKey(y), Len(x))

-----------------------------------------------------------------------------
(* Results of calls.                                                       *)

Ok(f) == [f |-> f, r |-> "Ok", v |-> <<>>]
OkV(f, v) == [f |-> f, r |-> "Ok", v |-> v]
Err(f, e) == [f |-> f, r |-> e, v |-> <<>>]
Panic(f, kind, v) == [f |-> f, r |-> kind, v |-> v]

Panics == {"panic_unwrap", "panic_index", "panic_unreachable", "panic_todo",
           "panic_overflow", "panic_div", "panic_capacity", "panic",
           "panic_unimplemented"}
StackErrors == {"ExceededStackSize", "StackUnderflow", "EmptyStack"}
RuntimeErrors == {"InvalidArrayAccess", "InvalidArrayEntrySize"}

\* Rust's `?`: go on with K when x is Ok, return x otherwise.
Then(x, K(_)) == IF x.r = "Ok" THEN K(x) ELSE x

\* Option::unwrap on the result of StackFrame::pop: a failed pop panics.
Unwrap(x) == IF x.r = "Ok" THEN x ELSE Panic(x.f, "panic_unwrap", <<>>)

\* Option::ok_or(StackError::EmptyStack) on the result of StackFrame::pop.
OkOrEmptyStack(x) == IF x.r = "Ok" THEN x ELSE Err(x.f, "EmptyStack")

-----------------------------------------------------------------------------
(* Stack<T>.                                                               *)

Stack_with_capacity(capacity) == [capacity |-> capacity, inner |-> <<>>]

Stack_push_unchecked(stack, value) ==
    [s |-> [stack EXCEPT !.inner = Append(@, value)], r |-> "Ok"]

Stack_push(stack, value) ==
    IF stack.capacity <= Len(stack.inner)
    THEN [s |-> stack, r |-> "ExceededStackSize"]
    ELSE [s |-> [stack EXCEPT !.inner = Append(@, value)], r |-> "Ok"]

\* Vec::pop: None on an empty vector.
Stack_pop(stack) ==
    IF Len(stack.inner) = 0
    THEN [s |-> stack, some |-> FALSE, value |-> 0]
    ELSE [s |-> [stack EXCEPT !.inner = SubSeq(@, 1, Len(@) - 1)],
          some |-> TRUE, value |-> stack.inner[Len(stack.inner)]]

-----------------------------------------------------------------------------
(* StackFrame.                                                             *)

None == <<>>
Some(x) == <<x>>

StackFrame_new(variables_size, stack_size, bytecode, current_classname) ==
    [bytecode |-> bytecode,
     current_classname |-> current_classname,
     pc |-> 0,
     ex_pc |-> None,
     variables |-> [i \in 1..variables_size |-> 0],
     operand_stack |-> Stack_with_capacity(stack_size)]

push_ref(f, value) ==
    LET p == Stack_push(f.operand_stack, value)
    IN  [f |-> [f EXCEPT !.operand_stack = p.s], r |-> p.r, v |-> <<>>]

pop_ref(f) ==
    LET p == Stack_pop(f.operand_stack)
    IN  IF p.some
        THEN OkV([f EXCEPT !.operand_stack = p.s], <<p.value>>)
        ELSE Err(f, "EmptyStack")

\* variables[index]: out of bounds panics.
get_variable(f, index) ==
    IF index >= 0 /\ index < Len(f.variables)
    THEN OkV(f, <<f.variables[index + 1]>>)
    ELSE Panic(f, "panic_index", <<index>>)

set_variable(f, index, value) ==
    IF index >= 0 /\ index < Len(f.variables)
    THEN Ok([f EXCEPT !.variables[index + 1] = value])
    ELSE Panic(f, "panic_index", <<index>>)

\* step_pc: a negative step is negated and subtracted as a usize.  Negating
\* i16::MIN overflows, and so does a subtraction below zero: the build
\* either panics there or wraps.
step_pc(f, step) ==
    IF step >= 0
    THEN Ok([f EXCEPT !.pc = @ + step])
    ELSE IF step = -(2^15)
         THEN IF overflow_checks
              THEN Panic(f, "panic_overflow", <<step>>)
              \* (-step) wraps to i16::MIN, and `as usize` sign-extends it
              ELSE Ok([f EXCEPT !.pc = @ + 2^15])
         ELSE IF f.pc >= 0 /\ f.pc < -step /\ overflow_checks
              THEN Panic(f, "panic_overflow", <<step>>)
              ELSE Ok([f EXCEPT !.pc = @ - (-step)])

next_pc(f) == step_pc(f, 1)

\* bytecode[pc]: out of bounds panics.
get_byte(f, pc) ==
    IF pc >= 0 /\ pc < Len(f.bytecode)
    THEN OkV(f, <<f.bytecode[pc + 1]>>)
    ELSE Panic(f, "panic_index", <<pc>>)

current_byte(f) == get_byte(f, f.pc)

get_next_byte(f) == Then(next_pc(f), LAMBDA x : current_byte(x.f))

-----------------------------------------------------------------------------
(* impl StackValue for i32, i64, f32, f64.                                 *)

get_i32(index, f) == get_variable(f, index)

set_i32(value, index, f) == set_variable(f, index, value)

push_onto_i32(value, f) == push_ref(f, value)

pop_from_i32(f) == pop_ref(f)

\* value[0]
from_slice_i32(f, value) ==
    IF Len(value) >= 1 THEN OkV(f, <<value[1]>>)
    ELSE Panic(f, "panic_index", <<0>>)

get_i64(index, f) ==
    Then(get_variable(f, index), LAMBDA l :
    Then(get_variable(f, index + 1), LAMBDA h :
    OkV(f, <<from_i32_to_i64(l.v[1], h.v[1])>>)))

set_i64(value, index, f) ==
    LET l == i64_as_i32(value)
        h == i64_as_i32(i64_shr32(value))
    IN  Then(set_variable(f, index, l), LAMBDA x :
        set_variable(x.f, index + 1, h))

push_onto_i64(value, f) ==
    LET l == i64_as_i32(value)
        h == i64_as_i32(i64_shr32(value))
    IN  Then(push_ref(f, l), LAMBDA x : push_ref(x.f, h))

pop_from_i64(f) ==
    Then(pop_ref(f), LAMBDA h :
    Then(pop_ref(h.f), LAMBDA l :
    OkV(l.f, <<from_i32_to_i64(l.v[1], h.v[1])>>)))

\* let (h, l) = (value[0], value[1])
from_slice_i64(f, value) ==
    IF Len(value) >= 2
    THEN OkV(f, <<from_i32_to_i64(value[2], value[1])>>)
    ELSE Panic(f, "panic_index", <<Len(value)>>)

\* StackFrame::pop::<i32>() and ::<i64>(): pop_from(..).ok()
pop_opt_i32(f) ==
    LET x == pop_from_i32(f)
    IN  IF x.r = "Ok" THEN x ELSE [f |-> x.f, r |-> "None", v |-> <<>>]

pop_opt_i64(f) ==
    LET x == pop_from_i64(f)
    IN  IF x.r = "Ok" THEN x ELSE [f |-> x.f, r |-> "None", v |-> <<>>]

get_f32(index, f) ==
    Then(get_i32(index, f), LAMBDA x : OkV(x.f, <<f32_from_bits(x.v[1])>>))

set_f32(value, index, f) == set_i32(f32_to_bits_as_i32(value), index, f)

push_onto_f32(value, f) == push_onto_i32(f32_to_bits_as_i32(value), f)

pop_from_f32(f) ==
    Then(OkOrEmptyStack(pop_opt_i32(f)), LAMBDA x :
    OkV(x.f, <<f32_from_bits(x.v[1])>>))

from_slice_f32(f, value) ==
    Then(from_slice_i32(f, value), LAMBDA x :
    OkV(x.f, <<f32_from_bits(x.v[1])>>))

get_f64(index, f) ==
    Then(get_i64(index, f), LAMBDA x : OkV(x.f, <<f64_from_bits(x.v[1])>>))

set_f64(value, index, f) == set_i64(f64_to_bits_as_i64(value), index, f)

push_onto_f64(value, f) == push_onto_i64(f64_to_bits_as_i64(value), f)

pop_from_f64(f) ==
    Then(OkOrEmptyStack(pop_opt_i64(f)), LAMBDA x :
    OkV(x.f, <<f64_from_bits(x.v[1])>>))

from_slice_f64(f, value) ==
    Then(from_slice_i64(f, value), LAMBDA x :
    OkV(x.f, <<f64_from_bits(x.v[1])>>))

\* The trait's methods by type name.
Types == {"i32", "i64", "f32", "f64"}

get(T, f, index) ==
    CASE T = "i32" -> get_i32(index, f)
      [] T = "i64" -> get_i64(index, f)
      [] T = "f32" -> get_f32(index, f)
      [] T = "f64" -> get_f64(index, f)

set(T, f, index, value) ==
    CASE T = "i32" -> set_i32(value, index, f)
      [] T = "i64" -> set_i64(value, index, f)
      [] T = "f32" -> set_f32(value, index, f)
      [] T = "f64" -> set_f64(value, index, f)

push(T, f, value) ==
    CASE T = "i32" -> push_onto_i32(value, f)
      [] T = "i64" -> push_onto_i64(value, f)
      [] T = "f32" -> push_onto_f32(value, f)
      [] T = "f64" -> push_onto_f64(value, f)

pop_from(T, f) ==
    CASE T = "i32" -> pop_from_i32(f)
      [] T = "i64" -> pop_from_i64(f)
      [] T = "f32" -> pop_from_f32(f)
      [] T = "f64" -> pop_from_f64(f)

\* StackFrame::pop: Some(value), or None when pop_from failed.
pop(T, f) ==
    LET x == pop_from(T, f)
    IN  IF x.r = "Ok" THEN x ELSE [f |-> x.f, r |-> "None", v |-> <<>>]

from_slice(T, f, value) ==
    CASE T = "i32" -> from_slice_i32(f, value)
      [] T = "i64" -> from_slice_i64(f, value)
      [] T = "f32" -> from_slice_f32(f, value)
      [] T = "f64" -> from_slice_f64(f, value)

-----------------------------------------------------------------------------
(* Heap: the arrays.  A heap is [objects, HEAP_ID]; objects maps a handle  *)
(* to [kind, name, value], value being the array's bytes.                  *)

Array_size(name) ==
    CASE name = "[B" -> 1
      [] name = "[C" -> 2
      [] name = "[D" -> 8
      [] name = "[F" -> 4
      [] name = "[I" -> 4
      [] name = "[J" -> 8
      [] name = "[S" -> 2
      [] name = "[Z" -> 1
      [] OTHER -> 4

\* HEAP_ID.fetch_add(1): the old value; the counter wraps as an i32.
next_id(heap) ==
    [id |-> heap.HEAP_ID,
     HEAP_ID |-> IF heap.HEAP_ID = MAX32 THEN MIN32 ELSE heap.HEAP_ID + 1]

Insert(objs, id, value) ==
    [h \in (DOMAIN objs) \cup {id} |-> IF h = id THEN value ELSE objs[h]]

\* A negative length is a huge usize: the allocation panics.
allocate_array(heap, name, length) ==
    IF length < 0
    THEN [heap |-> heap, r |-> "panic_capacity", v |-> <<>>]
    ELSE LET element_size == Array_size(name)
             len == length * element_size
             array == [kind |-> "Array", name |-> name,
                       value |-> [i \in 1..len |-> 0]]
             n == next_id(heap)
         IN  [heap |-> [objects |-> Insert(heap.objects, n.id, array),
                        HEAP_ID |-> n.HEAP_ID],
              r |-> "Ok", v |-> <<n.id>>]

allocate_array_with_values(heap, name, array) ==
    LET n == next_id(heap)
        a == [kind |-> "Array", name |-> name, value |-> array]
    IN  [heap |-> [objects |-> Insert(heap.objects, n.id, a),
                   HEAP_ID |-> n.HEAP_ID],
         r |-> "Ok", v |-> <<n.id>>]

\* An Instance is kept as [kind, name, value], value being its fields.
allocate_instance(heap, instance) ==
    LET n == next_id(heap)
    IN  [heap |-> [objects |-> Insert(heap.objects, n.id, instance),
                   HEAP_ID |-> n.HEAP_ID],
         r |-> "Ok", v |-> <<n.id>>]

\* i32::from_ne_bytes of four bytes in memory order.
from_ne_bytes(b) ==
    IF target_endian = "little"
    THEN I32(b[1] + 256 * b[2], b[3] + 256 * b[4])
    ELSE I32(b[4] + 256 * b[3], b[2] + 256 * b[1])

\* Array::get.  `index as usize * size` and `offset + size` overflow for a
\* negative index; what is left of it is out of the slice's bounds.
Array_get(array, index) ==
    LET size == Array_size(array.name)
        bytes == array.value
    IN  IF index < 0
        THEN IF overflow_checks /\ (size > 1 \/ index = -1)
             THEN [r |-> "panic_overflow", v |-> <<index>>]
             ELSE [r |-> "panic_index", v |-> <<index>>]
        ELSE IF index >= Len(bytes) \/ index * size + size > Len(bytes)
        THEN [r |-> "panic_index", v |-> <<index>>]
        ELSE LET offset == index * size
                 slice == [i \in 1..size |-> bytes[offset + i]]
             IN  IF size \in 1..3
                 THEN LET buff ==
                              IF target_endian = "big"
                              THEN [i \in 1..4 |-> IF i > 4 - size
                                                   THEN slice[i - (4 - size)]
                                                   ELSE 0]
                              ELSE [i \in 1..4 |-> IF i <= size
                                                   THEN slice[i] ELSE 0]
                      IN  [r |-> "Ok", v |-> <<from_ne_bytes(buff)>>]
                 ELSE IF size = 8
                 THEN LET hi == from_ne_bytes(SubSeq(slice, 1, 4))
                          lo == from_ne_bytes(SubSeq(slice, 5, 8))
                      IN  IF target_endian = "big"
                          THEN [r |-> "Ok", v |-> <<hi, lo>>]
                          ELSE [r |-> "Ok", v |-> <<lo, hi>>]
                 ELSE [r |-> "InvalidArrayEntrySize", v |-> <<size>>]

get_array_value(objs, array_ref, index) ==
    IF array_ref \in DOMAIN objs /\ objs[array_ref].kind = "Array"
    THEN Array_get(objs[array_ref], index)
    ELSE [r |-> "InvalidArrayAccess", v |-> <<index>>]

-----------------------------------------------------------------------------
(* Floats as bit patterns: NaN and order.                                  *)

ClearSign(b) == [b EXCEPT ![Len(b)] = @ % HalfLimb]

\* exponent all ones and a mantissa that is not zero
f32_is_nan(b) == (b[2] \div 128) % 256 = 255 /\ (b[2] % 128 # 0 \/ b[1] # 0)
f64_is_nan(b) ==
    (b[4] \div 16) % 2048 = 2047
        /\ (b[4] % 16 # 0 \/ b[3] # 0 \/ b[2] # 0 \/ b[1] # 0)

\* impl MaybeNan: never for the integers.
is_nan(T, value) ==
    CASE T = "f32" -> f32_is_nan(value)
      [] T = "f64" -> f64_is_nan(value)
      [] OTHER -> FALSE

IsZeroFloat(b) == ClearSign(b) = Zero(Len(b))

\* a < b and a == b for floats that are not NaN: -0.0 equals +0.0.
FloatLess(a, b) ==
    IF IsZeroFloat(a) /\ IsZeroFloat(b) THEN FALSE
    ELSE IF IsNegative(a) # IsNegative(b) THEN IsNegative(a)
    ELSE IF IsNegative(a)
         THEN a # b /\ GeU(ClearSign(a), ClearSign(b), Len(a))
         ELSE a # b /\ GeU(ClearSign(b), ClearSign(a), Len(a))

FloatEqual(a, b) == a = b \/ (IsZeroFloat(a) /\ IsZeroFloat(b))

\* PartialOrd::partial_cmp(..).unwrap() on values that are not NaN.
partial_cmp(T, a, b) ==
    CASE T = "i32" ->
            IF a > b THEN "Greater" ELSE IF a = b THEN "Equal" ELSE "Less"
      [] T = "i64" ->
            IF a = b THEN "Equal"
            ELSE IF LessThan(a, b) THEN "Less" ELSE "Greater"
      [] OTHER ->
            IF FloatEqual(a, b) THEN "Equal"
            ELSE IF FloatLess(a, b) THEN "Less" ELSE "Greater"

-----------------------------------------------------------------------------
(* StackFrame: what the opcode handlers are built from.                    *)

push_const(T, f, value) ==
    Then(push(T, f, value), LAMBDA x : next_pc(x.f))

load(T, f, position) ==
    Then(get(T, f, position), LAMBDA value :
    Then(push(T, f, value.v[1]), LAMBDA x :
    next_pc(x.f)))

positional_load(T, f) ==
    Then(get_next_byte(f), LAMBDA position :
    load(T, position.f, position.v[1]))

\* The heap's answer as the frame's result.
WithHeap(f, h) ==
    [f |-> f, r |-> h.r, v |-> IF h.r = "Ok" THEN <<h.v>> ELSE h.v]

load_array(T, f) ==
    Then(Unwrap(pop("i32", f)), LAMBDA idx :
    Then(Unwrap(pop("i32", idx.f)), LAMBDA array_idx :
    Then(WithHeap(array_idx.f,
                  get_array_value(objects, array_idx.v[1], idx.v[1])),
         LAMBDA slice :
    Then(from_slice(T, slice.f, slice.v[1]), LAMBDA value :
    Then(push(T, value.f, value.v[1]), LAMBDA x :
    next_pc(x.f))))))

store(T, f, position) ==
    Then(Unwrap(pop(T, f)), LAMBDA value :
    Then(set(T, value.f, position, value.v[1]), LAMBDA x :
    next_pc(x.f)))

positional_store(T, f) ==
    Then(get_next_byte(f), LAMBDA position :
    store(T, position.f, position.v[1]))

\* store_array reads the element and pushes it; what the push returns is
\* dropped.
store_array(T, f) ==
    Then(Unwrap(pop("i32", f)), LAMBDA idx :
    Then(Unwrap(pop("i32", idx.f)), LAMBDA array_idx :
    Then(WithHeap(array_idx.f,
                  get_array_value(objects, array_idx.v[1], idx.v[1])),
         LAMBDA slice :
    Then(from_slice(T, slice.f, slice.v[1]), LAMBDA value :
    next_pc(push(T, value.f, value.v[1]).f)))))

\* op yields [r, v]: it can panic (division by zero, a shift too far).
binary_op(A, B, f, op(_, _)) ==
    Then(OkOrEmptyStack(pop(B, f)), LAMBDA b :
    Then(OkOrEmptyStack(pop(A, b.f)), LAMBDA a :
    LET value == op(a.v[1], b.v[1])
    IN  IF value.r # "Ok" THEN Panic(a.f, value.r, value.v)
        ELSE push(A, a.f, value.v[1])))

\* The result of op is computed and dropped.
unary_op(T, f, op(_)) ==
    Then(Unwrap(pop(T, f)), LAMBDA value :
    LET res == op(value.v[1])
    IN  IF res.r # "Ok" THEN Panic(value.f, res.r, res.v)
        ELSE next_pc(value.f))

\* `byte as i8 as i32`
u8_as_i8(byte) == IF byte >= 128 THEN byte - 256 ELSE byte

\* An addition that stops at the ends of i32.
i32_saturating_add(a, b) ==
    IF b >= 0
    THEN IF a <= MAX32 - b THEN a + b ELSE MAX32
    ELSE IF a >= MIN32 - b THEN a + b ELSE MIN32

i32_wrapping_add(a, b) == FromLimbs(wrapping_add(ToLimbs(a), ToLimbs(b)))

increment(f) ==
    Then(get_next_byte(f), LAMBDA index :
    Then(get_next_byte(index.f), LAMBDA constant :
    Then(get("i32", constant.f, index.v[1]), LAMBDA curr :
    LET next == i32_wrapping_add(curr.v[1], u8_as_i8(constant.v[1]))
    IN  Then(set("i32", constant.f, index.v[1], next), LAMBDA x :
        next_pc(x.f)))))

\* ((b1 as i16) << 8) | b2 as i16
branch_offset(b1, b2) ==
    LET u == 256 * b1 + b2 IN IF u >= HalfLimb THEN u - Limb ELSE u

unary_branch(f, op(_)) ==
    Then(Unwrap(pop("i32", f)), LAMBDA value :
    Then(get_byte(value.f, value.f.pc + 1), LAMBDA b1 :
    Then(get_byte(value.f, value.f.pc + 2), LAMBDA b2 :
    step_pc(value.f, IF op(value.v[1])
                     THEN branch_offset(b1.v[1], b2.v[1]) ELSE 3))))

binary_branch(f, op(_, _)) ==
    Then(Unwrap(pop("i32", f)), LAMBDA value_sec :
    Then(Unwrap(pop("i32", value_sec.f)), LAMBDA value :
    Then(get_byte(value.f, value.f.pc + 1), LAMBDA b1 :
    Then(get_byte(value.f, value.f.pc + 2), LAMBDA b2 :
    step_pc(value.f, IF op(value.v[1], value_sec.v[1])
                     THEN branch_offset(b1.v[1], b2.v[1]) ELSE 3)))))

\* What the push of the converted value returns is dropped.
convert(F, T, f, conversion(_)) ==
    Then(Unwrap(pop(F, f)), LAMBDA from :
    LET to == conversion(from.v[1])
    IN  next_pc(push(T, from.f, to).f))

compare(V, f, nan_ord) ==
    Then(Unwrap(pop(V, f)), LAMBDA value_sec :
    Then(Unwrap(pop(V, value_sec.f)), LAMBDA value :
    LET ordering == partial_cmp(V, value.v[1], value_sec.v[1])
        res == IF is_nan(V, value.v[1]) \/ is_nan(V, value_sec.v[1])
               THEN nan_ord
               ELSE CASE ordering = "Greater" -> 1
                      [] ordering = "Equal" -> 0
                      [] ordering = "Less" -> -1
    IN  Then(push("i32", value.f, res), LAMBDA x :
        next_pc(x.f))))

-----------------------------------------------------------------------------
(* enum Opcode: the variants by discriminant, NOP = 0 .. IINC = 132 and    *)
(* LCMP = 148 .. IF_ACMPNE = 166.  The enum has no conversion variants.    *)

OpcodesFromNop ==
    <<"NOP", "ACONST_NULL", "ICONST_M1", "ICONST_0", "ICONST_1",
      "ICONST_2", "ICONST_3", "ICONST_4", "ICONST_5", "LCONST_0",
      "LCONST_1", "FCONST_0", "FCONST_1", "FCONST_2", "DCONST_0",
      "DCONST_1", "BIPUSH", "SIPUSH", "LDC", "LDC_W", "LDC2_W", "ILOAD",
      "LLOAD", "FLOAD", "DLOAD", "ALOAD", "ILOAD_0", "ILOAD_1",
      "ILOAD_2", "ILOAD_3", "LLOAD_0", "LLOAD_1", "LLOAD_2", "LLOAD_3",
      "FLOAD_0", "FLOAD_1", "FLOAD_2", "FLOAD_3", "DLOAD_0", "DLOAD_1",
      "DLOAD_2", "DLOAD_3", "ALOAD_0", "ALOAD_1", "ALOAD_2", "ALOAD_3",
      "IALOAD", "LALOAD", "FALOAD", "DALOAD", "AALOAD", "BALOAD",
      "CALOAD", "SALOAD", "ISTORE", "LSTORE", "FSTORE", "DSTORE",
      "ASTORE", "ISTORE_0", "ISTORE_1", "ISTORE_2", "ISTORE_3",
      "LSTORE_0", "LSTORE_1", "LSTORE_2", "LSTORE_3", "FSTORE_0",
      "FSTORE_1", "FSTORE_2", "FSTORE_3", "DSTORE_0", "DSTORE_1",
      "DSTORE_2", "DSTORE_3", "ASTORE_0", "ASTORE_1", "ASTORE_2",
      "ASTORE_3", "IASTORE", "LASTORE", "FASTORE", "DASTORE", "AASTORE",
      "BASTORE", "CASTORE", "SASTORE", "POP", "POP2", "DUP", "DUP_X1",
      "DUP_X2", "DUP2", "DUP2_X1", "DUP2_X2", "SWAP", "IADD", "LADD",
      "FADD", "DADD", "ISUB", "LSUB", "FSUB", "DSUB", "IMUL", "LMUL",
      "FMUL", "DMUL", "IDIV", "LDIV", "FDIV", "DDIV", "IREM", "LREM",
      "FREM", "DREM", "INEG", "LNEG", "FNEG", "DNEG", "ISHL", "LSHL",
      "ISHR", "LSHR", "IUSHR", "LUSHR", "IAND", "LAND", "IOR", "LOR",
      "IXOR", "LXOR", "IINC">>

OpcodesFromLcmp ==
    <<"LCMP", "FCMPL", "FCMPG", "DCMPL", "DCMPG", "IFEQ", "IFNE",
      "IFLT", "IFGE", "IFGT", "IFLE", "IF_ICMPEQ", "IF_ICMPNE",
      "IF_ICMPLT", "IF_ICMPGE", "IF_ICMPGT", "IF_ICMPLE", "IF_ACMPEQ",
      "IF_ACMPNE">>

\* Opcode::from(code): num_enum's FromPrimitive, NOP being the #[default].
Opcode_from(code) ==
    IF code >= 0 /\ code < Len(OpcodesFromNop) THEN OpcodesFromNop[code + 1]
    ELSE IF code >= 148 /\ code < 148 + Len(OpcodesFromLcmp)
         THEN OpcodesFromLcmp[code - 147]
         ELSE "NOP"

\* `opcode as u8`
as_u8(opcode) ==
    CHOOSE code \in 0..255 :
        /\ Opcode_from(code) = opcode
        /\ opcode = "NOP" => code = 0

-----------------------------------------------------------------------------
(* The opcode groups: instructions/{constants,loads,stores,stack}.rs.      *)
(* Each takes the frame stack and answers [fs, r, v].                      *)

\* frames.last_mut().ok_or(StackError::EmptyStack)?, and then K on the frame.
last_mut(fs, K(_)) ==
    IF fs = <<>> THEN [fs |-> fs, r |-> "EmptyStack", v |-> <<>>]
    ELSE LET x == K(fs[Len(fs)])
         IN  [fs |-> [fs EXCEPT ![Len(fs)] = x.f], r |-> x.r, v |-> x.v]

\* 1.0f32, 2.0f32 and 1.0f64 as bit patterns
F32_ONE == <<0, 16256>>
F32_TWO == <<0, 16384>>
F64_ONE == <<0, 0, 0, 16368>>

constants_process(code, fs) ==
    last_mut(fs, LAMBDA frame :
    LET opcode == Opcode_from(code)
    IN  CASE opcode = "NOP" -> next_pc(frame)
          [] opcode = "ACONST_NULL" -> push_const("i32", frame, 0)
          [] opcode = "ICONST_0" -> push_const("i32", frame, 0)
          [] opcode = "ICONST_1" -> push_const("i32", frame, 1)
          [] opcode = "ICONST_2" -> push_const("i32", frame, 2)
          [] opcode = "ICONST_3" -> push_const("i32", frame, 3)
          [] opcode = "ICONST_4" -> push_const("i32", frame, 4)
          [] opcode = "ICONST_5" -> push_const("i32", frame, 5)
          [] opcode = "LCONST_0" -> push_const("i64", frame, Zero(4))
          [] opcode = "LCONST_1" -> push_const("i64", frame, One(4))
          [] opcode = "FCONST_0" -> push_const("f32", frame, Zero(2))
          [] opcode = "FCONST_1" -> push_const("f32", frame, F32_ONE)
          [] opcode = "FCONST_2" -> push_const("f32", frame, F32_TWO)
          [] opcode = "DCONST_0" -> push_const("f64", frame, Zero(4))
          [] opcode = "DCONST_1" -> push_const("f64", frame, F64_ONE)
          [] OTHER -> Panic(frame, "panic_todo",
                         <<"constant operation not yet handled",
                           as_u8(opcode)>>))

loads_process(code, fs) ==
    last_mut(fs, LAMBDA frame :
    LET opcode == Opcode_from(code)
    IN  CASE opcode \in {"ILOAD", "ALOAD"} -> positional_load("i32", frame)
          [] opcode = "LLOAD" -> positional_load("i64", frame)
          [] opcode = "FLOAD" -> positional_load("f32", frame)
          [] opcode = "DLOAD" -> positional_load("f64", frame)
          [] opcode \in {"ILOAD_0", "ILOAD_1", "ILOAD_2", "ILOAD_3"} ->
                load("i32", frame, code - as_u8("ILOAD_0"))
          [] opcode \in {"LLOAD_0", "LLOAD_1", "LLOAD_2", "LLOAD_3"} ->
                load("i64", frame, code - as_u8("LLOAD_0"))
          [] opcode \in {"FLOAD_0", "FLOAD_1", "FLOAD_2", "FLOAD_3"} ->
                load("f32", frame, code - as_u8("FLOAD_0"))
          [] opcode \in {"DLOAD_0", "DLOAD_1", "DLOAD_2", "DLOAD_3"} ->
                load("f64", frame, code - as_u8("DLOAD_0"))
          [] opcode \in {"ALOAD_0", "ALOAD_1", "ALOAD_2", "ALOAD_3"} ->
                load("i32", frame, code - as_u8("ALOAD_0"))
          [] opcode \in {"IALOAD", "AALOAD", "BALOAD", "CALOAD", "SALOAD"} ->
                load_array("i32", frame)
          [] opcode = "LALOAD" -> load_array("i64", frame)
          [] opcode = "FALOAD" -> load_array("f32", frame)
          [] opcode = "DALOAD" -> load_array("f64", frame)
          [] OTHER -> Panic(frame, "panic_unreachable", <<"Tried to load with", code>>))

\* The arm of the array stores names IALOAD where IASTORE is meant.
stores_process(code, fs) ==
    last_mut(fs, LAMBDA frame :
    LET opcode == Opcode_from(code)
    IN  CASE opcode \in {"ISTORE", "ASTORE"} -> positional_store("i32", frame)
          [] opcode = "LSTORE" -> positional_store("i64", frame)
          [] opcode = "FSTORE" -> positional_store("f32", frame)
          [] opcode = "DSTORE" -> positional_store("f64", frame)
          [] opcode \in {"ISTORE_0", "ISTORE_1", "ISTORE_2", "ISTORE_3"} ->
                store("i32", frame, code - as_u8("ISTORE_0"))
          [] opcode \in {"LSTORE_0", "LSTORE_1", "LSTORE_2", "LSTORE_3"} ->
                store("i64", frame, code - as_u8("LSTORE_0"))
          [] opcode \in {"FSTORE_0", "FSTORE_1", "FSTORE_2", "FSTORE_3"} ->
                store("f32", frame, code - as_u8("FSTORE_0"))
          [] opcode \in {"DSTORE_0", "DSTORE_1", "DSTORE_2", "DSTORE_3"} ->
                store("f64", frame, code - as_u8("DSTORE_0"))
          [] opcode \in {"ASTORE_0", "ASTORE_1", "ASTORE_2", "ASTORE_3"} ->
                store("i32", frame, code - as_u8("ASTORE_0"))
          [] opcode \in {"IALOAD", "AASTORE", "BASTORE", "CASTORE", "SASTORE"} ->
                store_array("i32", frame)
          [] opcode = "LASTORE" -> store_array("i64", frame)
          [] opcode = "FASTORE" -> store_array("f32", frame)
          [] opcode = "DASTORE" -> store_array("f64", frame)
          [] OTHER -> Panic(frame, "panic_unreachable", <<"Tried to store", code>>))

\* The values popped, the last popped first.
RECURSIVE PopUnwrap_last_first(_, _)
PopUnwrap_last_first(f, n) ==
    IF n = 0 THEN OkV(f, <<>>)
    ELSE Then(Unwrap(pop("i32", f)), LAMBDA value :
         Then(PopUnwrap_last_first(value.f, n - 1), LAMBDA rest :
         OkV(rest.f, rest.v \o value.v)))

\* n values popped with pop::<i32>().unwrap(): [f, r, v], v the values in
\* the order popped.
RECURSIVE PopUnwrap(_, _)
PopUnwrap(f, n) ==
    IF n = 0 THEN OkV(f, <<>>)
    ELSE Then(Unwrap(pop("i32", f)), LAMBDA value :
         Then(PopUnwrap(value.f, n - 1), LAMBDA rest :
         OkV(rest.f, value.v \o rest.v)))

\* The values pushed one after the other with push(..)?.
RECURSIVE PushAll(_, _)
PushAll(f, values) ==
    IF values = <<>> THEN Ok(f)
    ELSE Then(push("i32", f, Head(values)), LAMBDA x :
         PushAll(x.f, Tail(values)))

\* Pop n values, push the chosen ones, step the pc.
Shuffle(frame, n, order(_)) ==
    Then(PopUnwrap(frame, n), LAMBDA popped :
    Then(PushAll(popped.f, order(popped.v)), LAMBDA x :
    next_pc(x.f)))

\* In the arms, p[1] is `value`, p[2] `sec_value`, p[3] `trd_value` and
\* p[4] `frth_value`.
stack_process(code, fs) ==
    last_mut(fs, LAMBDA frame :
    LET opcode == Opcode_from(code)
    IN  CASE opcode = "POP" -> Shuffle(frame, 1, LAMBDA p : <<>>)
          [] opcode = "POP2" -> Shuffle(frame, 2, LAMBDA p : <<>>)
          [] opcode = "DUP" -> Shuffle(frame, 1, LAMBDA p : <<p[1], p[1]>>)
          [] opcode = "DUP_X1" ->
                Shuffle(frame, 2, LAMBDA p : <<p[1], p[2], p[1]>>)
          [] opcode = "DUP_X2" ->
                Shuffle(frame, 3, LAMBDA p : <<p[1], p[3], p[2], p[1]>>)
          [] opcode = "DUP2" ->
                Shuffle(frame, 2, LAMBDA p : <<p[2], p[1], p[2], p[1]>>)
          [] opcode = "DUP2_X1" ->
                Shuffle(frame, 3, LAMBDA p : <<p[2], p[1], p[3], p[2], p[1]>>)
          [] opcode = "DUP2_X2" ->
                Shuffle(frame, 4,
                        LAMBDA p : <<p[2], p[1], p[4], p[3], p[2], p[1]>>)
          [] opcode = "SWAP" -> Shuffle(frame, 2, LAMBDA p : <<p[1], p[2]>>)
          [] OTHER -> Panic(frame, "panic_unreachable", <<"Tried to manipulate stack with", code>>))

-----------------------------------------------------------------------------
(* Float arithmetic on bit patterns.  FLOAT_TABLES_BEGIN                   *)

F32_ADD ==
       <<<<0, 0>>, <<0, 0>>>> :> <<0, 0>>
    @@ <<<<0, 0>>, <<1, 0>>>> :> <<1, 0>>
    @@ <<<<0, 0>>, <<2, 0>>>> :> <<2, 0>>
    @@ <<<<0, 0>>, <<3, 0>>>> :> <<3, 0>>
    @@ <<<<0, 0>>, <<4, 0>>>> :> <<4, 0>>
    @@ <<<<0, 0>>, <<5, 0>>>> :> <<5, 0>>
    @@ <<<<1, 0>>, <<0, 0>>>> :> <<1, 0>>
    @@ <<<<1, 0>>, <<1, 0>>>> :> <<2, 0>>
    @@ <<<<1, 0>>, <<2, 0>>>> :> <<3, 0>>
    @@ <<<<1, 0>>, <<3, 0>>>> :> <<4, 0>>
    @@ <<<<1, 0>>, <<4, 0>>>> :> <<5, 0>>
    @@ <<<<1, 0>>, <<5, 0>>>> :> <<6, 0>>

F32_SUB ==
       <<<<0, 0>>, <<0, 0>>>> :> <<0, 0>>
    @@ <<<<0, 0>>, <<1, 0>>>> :> <<1, 32768>>
    @@ <<<<0, 0>>, <<2, 0>>>> :> <<2, 32768>>
    @@ <<<<0, 0>>, <<3, 0>>>> :> <<3, 32768>>
    @@ <<<<0, 0>>, <<1, 32768>>>> :> <<1, 0>>
    @@ <<<<0, 0>>, <<2, 32768>>>> :> <<2, 0>>
    @@ <<<<1, 0>>, <<0, 0>>>> :> <<1, 0>>
    @@ <<<<1, 0>>, <<1, 0>>>> :> <<0, 0>>
    @@ <<<<1, 0>>, <<2, 0>>>> :> <<1, 32768>>
    @@ <<<<1, 0>>, <<3, 0>>>> :> <<2, 32768>>
    @@ <<<<1, 0>>, <<1, 32768>>>> :> <<2, 0>>
    @@ <<<<1, 0>>, <<2, 32768>>>> :> <<3, 0>>

F32_MUL ==
       <<<<0, 0>>, <<0, 0>>>> :> <<0, 0>>
    @@ <<<<0, 0>>, <<1, 0>>>> :> <<0, 0>>
    @@ <<<<1, 0>>, <<0, 0>>>> :> <<0, 0>>
    @@ <<<<1, 0>>, <<1, 0>>>> :> <<0, 0>>

F32_DIV ==
       <<<<0, 0>>, <<0, 0>>>> :> <<>>
    @@ <<<<0, 0>>, <<1, 0>>>> :> <<0, 0>>
    @@ <<<<0, 0>>, <<0, 16256>>>> :> <<0, 0>>
    @@ <<<<0, 0>>, <<0, 32640>>>> :> <<0, 0>>
    @@ <<<<1, 0>>, <<0, 0>>>> :> <<0, 32640>>
    @@ <<<<1, 0>>, <<1, 0>>>> :> <<0, 16256>>
    @@ <<<<1, 0>>, <<0, 16256>>>> :> <<1, 0>>
    @@ <<<<1, 0>>, <<0, 32640>>>> :> <<0, 0>>

F32_REM ==
       <<<<0, 0>>, <<0, 0>>>> :> <<>>
    @@ <<<<0, 0>>, <<1, 0>>>> :> <<0, 0>>
    @@ <<<<1, 0>>, <<0, 0>>>> :> <<>>
    @@ <<<<1, 0>>, <<1, 0>>>> :> <<0, 0>>

F64_ADD ==
       <<<<0, 0, 0, 0>>, <<0, 0, 0, 0>>>> :> <<0, 0, 0, 0>>
    @@ <<<<0, 0, 0, 0>>, <<1, 0, 0, 0>>>> :> <<1, 0, 0, 0>>
    @@ <<<<0, 0, 0, 0>>, <<65535, 65535, 0, 0>>>> :> <<65535, 65535, 0, 0>>
    @@ <<<<0, 0, 0, 0>>, <<0, 0, 1, 0>>>> :> <<0, 0, 1, 0>>
    @@ <<<<0, 0, 0, 0>>, <<1, 0, 1, 0>>>> :> <<1, 0, 1, 0>>
    @@ <<<<0, 0, 0, 0>>, <<65535, 65535, 1, 0>>>> :> <<65535, 65535, 1, 0>>
    @@ <<<<1, 0, 0, 0>>, <<0, 0, 0, 0>>>> :> <<1, 0, 0, 0>>
    @@ <<<<1, 0, 0, 0>>, <<1, 0, 0, 0>>>> :> <<2, 0, 0, 0>>
    @@ <<<<1, 0, 0, 0>>, <<65535, 65535, 0, 0>>>> :> <<0, 0, 1, 0>>
    @@ <<<<1, 0, 0, 0>>, <<0, 0, 1, 0>>>> :> <<1, 0, 1, 0>>
    @@ <<<<1, 0, 0, 0>>, <<1, 0, 1, 0>>>> :> <<2, 0, 1, 0>>
    @@ <<<<1, 0, 0, 0>>, <<65535, 65535, 1, 0>>>> :> <<0, 0, 2, 0>>
    @@ <<<<65535, 65535, 0, 0>>, <<0, 0, 0, 0>>>> :> <<65535, 65535, 0, 0>>
    @@ <<<<65535, 65535, 0, 0>>, <<1, 0, 0, 0>>>> :> <<0, 0, 1, 0>>
    @@ <<<<65535, 65535, 0, 0>>, <<65535, 65535, 0, 0>>>> :> <<65534, 65535, 1, 0>>
    @@ <<<<65535, 65535, 0, 0>>, <<0, 0, 1, 0>>>> :> <<65535, 65535, 1, 0>>
    @@ <<<<65535, 65535, 0, 0>>, <<1, 0, 1, 0>>>> :> <<0, 0, 2, 0>>
    @@ <<<<65535, 65535, 0, 0>>, <<65535, 65535, 1, 0>>>> :> <<65534, 65535, 2, 0>>
    @@ <<<<0, 0, 1, 0>>, <<0, 0, 0, 0>>>> :> <<0, 0, 1, 0>>
    @@ <<<<0, 0, 1, 0>>, <<1, 0, 0, 0>>>> :> <<1, 0, 1, 0>>
    @@ <<<<0, 0, 1, 0>>, <<65535, 65535, 0, 0>>>> :> <<65535, 65535, 1, 0>>
    @@ <<<<0, 0, 1, 0>>, <<0, 0, 1, 0>>>> :> <<0, 0, 2, 0>>
    @@ <<<<0, 0, 1, 0>>, <<1, 0, 1, 0>>>> :> <<1, 0, 2, 0>>
    @@ <<<<0, 0, 1, 0>>, <<65535, 65535, 1, 0>>>> :> <<65535, 65535, 2, 0>>
    @@ <<<<1, 0, 1, 0>>, <<0, 0, 0, 0>>>> :> <<1, 0, 1, 0>>
    @@ <<<<1, 0, 1, 0>>, <<1, 0, 0, 0>>>> :> <<2, 0, 1, 0>>
    @@ <<<<1, 0, 1, 0>>, <<65535, 65535, 0, 0>>>> :> <<0, 0, 2, 0>>
    @@ <<<<1, 0, 1, 0>>, <<0, 0, 1, 0>>>> :> <<1, 0, 2, 0>>
    @@ <<<<1, 0, 1, 0>>, <<1, 0, 1, 0>>>> :> <<2, 0, 2, 0>>
    @@ <<<<1, 0, 1, 0>>, <<65535, 65535, 1, 0>>>> :> <<0, 0, 3, 0>>
    @@ <<<<65535, 65535, 1, 0>>, <<0, 0, 0, 0>>>> :> <<65535, 65535, 1, 0>>
    @@ <<<<65535, 65535, 1, 0>>, <<1, 0, 0, 0>>>> :> <<0, 0, 2, 0>>
    @@ <<<<65535, 65535, 1, 0>>, <<65535, 65535, 0, 0>>>> :> <<65534, 65535, 2, 0>>
    @@ <<<<65535, 65535, 1, 0>>, <<0, 0, 1, 0>>>> :> <<65535, 65535, 2, 0>>
    @@ <<<<65535, 65535, 1, 0>>, <<1, 0, 1, 0>>>> :> <<0, 0, 3, 0>>
    @@ <<<<65535, 65535, 1, 0>>, <<65535, 65535, 1, 0>>>> :> <<65534, 65535, 3, 0>>

F64_SUB ==
       <<<<0, 0, 0, 0>>, <<0, 0, 0, 0>>>> :> <<0, 0, 0, 0>>
    @@ <<<<0, 0, 0, 0>>, <<1, 0, 0, 0>>>> :> <<1, 0, 0, 32768>>
    @@ <<<<0, 0, 0, 0>>, <<65535, 65535, 0, 0>>>> :> <<65535, 65535, 0, 32768>>
    @@ <<<<0, 0, 0, 0>>, <<0, 0, 1, 0>>>> :> <<0, 0, 1, 32768>>
    @@ <<<<0, 0, 0, 0>>, <<1, 0, 1, 0>>>> :> <<1, 0, 1, 32768>>
    @@ <<<<0, 0, 0, 0>>, <<65535, 65535, 1, 0>>>> :> <<65535, 65535, 1, 32768>>
    @@ <<<<1, 0, 0, 0>>, <<0, 0, 0, 0>>>> :> <<1, 0, 0, 0>>
    @@ <<<<1, 0, 0, 0>>, <<1, 0, 0, 0>>>> :> <<0, 0, 0, 0>>
    @@ <<<<1, 0, 0, 0>>, <<65535, 65535, 0, 0>>>> :> <<65534, 65535, 0, 32768>>
    @@ <<<<1, 0, 0, 0>>, <<0, 0, 1, 0>>>> :> <<65535, 65535, 0, 32768>>
    @@ <<<<1, 0, 0, 0>>, <<1, 0, 1, 0>>>> :> <<0, 0, 1, 32768>>
    @@ <<<<1, 0, 0, 0>>, <<65535, 65535, 1, 0>>>> :> <<65534, 65535, 1, 32768>>
    @@ <<<<65535, 65535, 0, 0>>, <<0, 0, 0, 0>>>> :> <<65535, 65535, 0, 0>>
    @@ <<<<65535, 65535, 0, 0>>, <<1, 0, 0, 0>>>> :> <<65534, 65535, 0, 0>>
    @@ <<<<65535, 65535, 0, 0>>, <<65535, 65535, 0, 0>>>> :> <<0, 0, 0, 0>>
    @@ <<<<65535, 65535, 0, 0>>, <<0, 0, 1, 0>>>> :> <<1, 0, 0, 32768>>
    @@ <<<<65535, 65535, 0, 0>>, <<1, 0, 1, 0>>>> :> <<2, 0, 0, 32768>>
    @@ <<<<65535, 65535, 0, 0>>, <<65535, 65535, 1, 0>>>> :> <<0, 0, 1, 32768>>
    @@ <<<<0, 0, 1, 0>>, <<0, 0, 0, 0>>>> :> <<0, 0, 1, 0>>
    @@ <<<<0, 0, 1, 0>>, <<1, 0, 0, 0>>>> :> <<65535, 65535, 0, 0>>
    @@ <<<<0, 0, 1, 0>>, <<65535, 65535, 0, 0>>>> :> <<1, 0, 0, 0>>
    @@ <<<<0, 0, 1, 0>>, <<0, 0, 1, 0>>>> :> <<0, 0, 0, 0>>
    @@ <<<<0, 0, 1, 0>>, <<1, 0, 1, 0>>>> :> <<1, 0, 0, 32768>>
    @@ <<<<0, 0, 1, 0>>, <<65535, 65535, 1, 0>>>> :> <<65535, 65535, 0, 32768>>
    @@ <<<<1, 0, 1, 0>>, <<0, 0, 0, 0>>>> :> <<1, 0, 1, 0>>
    @@ <<<<1, 0, 1, 0>>, <<1, 0, 0, 0>>>> :> <<0, 0, 1, 0>>
    @@ <<<<1, 0, 1, 0>>, <<65535, 65535, 0, 0>>>> :> <<2, 0, 0, 0>>
    @@ <<<<1, 0, 1, 0>>, <<0, 0, 1, 0>>>> :> <<1, 0, 0, 0>>
    @@ <<<<1, 0, 1, 0>>, <<1, 0, 1, 0>>>> :> <<0, 0, 0, 0>>
    @@ <<<<1, 0, 1, 0>>, <<65535, 65535, 1, 0>>>> :> <<65534, 65535, 0, 32768>>
    @@ <<<<65535, 65535, 1, 0>>, <<0, 0, 0, 0>>>> :> <<65535, 65535, 1, 0>>
    @@ <<<<65535, 65535, 1, 0>>, <<1, 0, 0, 0>>>> :> <<65534, 65535, 1, 0>>
    @@ <<<<65535, 65535, 1, 0>>, <<65535, 65535, 0, 0>>>> :> <<0, 0, 1, 0>>
    @@ <<<<65535, 65535, 1, 0>>, <<0, 0, 1, 0>>>> :> <<65535, 65535, 0, 0>>
    @@ <<<<65535, 65535, 1, 0>>, <<1, 0, 1, 0>>>> :> <<65534, 65535, 0, 0>>
    @@ <<<<65535, 65535, 1, 0>>, <<65535, 65535, 1, 0>>>> :> <<0, 0, 0, 0>>

F64_MUL ==
       <<<<0, 0, 0, 0>>, <<0, 0, 0, 0>>>> :> <<0, 0, 0, 0>>
    @@ <<<<0, 0, 0, 0>>, <<1, 0, 0, 0>>>> :> <<0, 0, 0, 0>>
    @@ <<<<0, 0, 0, 0>>, <<65535, 65535, 0, 0>>>> :> <<0, 0, 0, 0>>
    @@ <<<<0, 0, 0, 0>>, <<0, 0, 1, 0>>>> :> <<0, 0, 0, 0>>
    @@ <<<<0, 0, 0, 0>>, <<1, 0, 1, 0>>>> :> <<0, 0, 0, 0>>
    @@ <<<<0, 0, 0, 0>>, <<65535, 65535, 1, 0>>>> :> <<0, 0, 0, 0>>
    @@ <<<<1, 0, 0, 0>>, <<0, 0, 0, 0>>>> :> <<0, 0, 0, 0>>
    @@ <<<<1, 0, 0, 0>>, <<1, 0, 0, 0>>>> :> <<0, 0, 0, 0>>
    @@ <<<<1, 0, 0, 0>>, <<65535, 65535, 0, 0>>>> :> <<0, 0, 0, 0>>
    @@ <<<<1, 0, 0, 0>>, <<0, 0, 1, 0>>>> :> <<0, 0, 0, 0>>
    @@ <<<<1, 0, 0, 0>>, <<1, 0, 1, 0>>>> :> <<0, 0, 0, 0>>
    @@ <<<<1, 0, 0, 0>>, <<65535, 65535, 1, 0>>>> :> <<0, 0, 0, 0>>
    @@ <<<<65535, 65535, 0, 0>>, <<0, 0, 0, 0>>>> :> <<0, 0, 0, 0>>
    @@ <<<<65535, 65535, 0, 0>>, <<1, 0, 0, 0>>>> :> <<0, 0, 0, 0>>
    @@ <<<<65535, 65535, 0, 0>>, <<65535, 65535, 0, 0>>>> :> <<0, 0, 0, 0>>
    @@ <<<<65535, 65535, 0, 0>>, <<0, 0, 1, 0>>>> :> <<0, 0, 0, 0>>
    @@ <<<<65535, 65535, 0, 0>>, <<1, 0, 1, 0>>>> :> <<0, 0, 0, 0>>
    @@ <<<<65535, 65535, 0, 0>>, <<65535, 65535, 1, 0>>>> :> <<0, 0, 0, 0>>
    @@ <<<<0, 0, 1, 0>>, <<0, 0, 0, 0>>>> :> <<0, 0, 0, 0>>
    @@ <<<<0, 0, 1, 0>>, <<1, 0, 0, 0>>>> :> <<0, 0, 0, 0>>
    @@ <<<<0, 0, 1, 0>>, <<65535, 65535, 0, 0>>>> :> <<0, 0, 0, 0>>
    @@ <<<<0, 0, 1, 0>>, <<0, 0, 1, 0>>>> :> <<0, 0, 0, 0>>
    @@ <<<<0, 0, 1, 0>>, <<1, 0, 1, 0>>>> :> <<0, 0, 0, 0>>
    @@ <<<<0, 0, 1, 0>>, <<65535, 65535, 1, 0>>>> :> <<0, 0, 0, 0>>
    @@ <<<<1, 0, 1, 0>>, <<0, 0, 0, 0>>>> :> <<0, 0, 0, 0>>
    @@ <<<<1, 0, 1, 0>>, <<1, 0, 0, 0>>>> :> <<0, 0, 0, 0>>
    @@ <<<<1, 0, 1, 0>>, <<65535, 65535, 0, 0>>>> :> <<0, 0, 0, 0>>
    @@ <<<<1, 0, 1, 0>>, <<0, 0, 1, 0>>>> :> <<0, 0, 0, 0>>
    @@ <<<<1, 0, 1, 0>>, <<1, 0, 1, 0>>>> :> <<0, 0, 0, 0>>
    @@ <<<<1, 0, 1, 0>>, <<65535, 65535, 1, 0>>>> :> <<0, 0, 0, 0>>
    @@ <<<<65535, 65535, 1, 0>>, <<0, 0, 0, 0>>>> :> <<0, 0, 0, 0>>
    @@ <<<<65535, 65535, 1, 0>>, <<1, 0, 0, 0>>>> :> <<0, 0, 0, 0>>
    @@ <<<<65535, 65535, 1, 0>>, <<65535, 65535, 0, 0>>>> :> <<0, 0, 0, 0>>
    @@ <<<<65535, 65535, 1, 0>>, <<0, 0, 1, 0>>>> :> <<0, 0, 0, 0>>
    @@ <<<<65535, 65535, 1, 0>>, <<1, 0, 1, 0>>>> :> <<0, 0, 0, 0>>
    @@ <<<<65535, 65535, 1, 0>>, <<65535, 65535, 1, 0>>>> :> <<0, 0, 0, 0>>

F64_DIV ==
       <<<<0, 0, 0, 0>>, <<0, 0, 0, 0>>>> :> <<>>
    @@ <<<<0, 0, 0, 0>>, <<1, 0, 0, 0>>>> :> <<0, 0, 0, 0>>
    @@ <<<<0, 0, 0, 0>>, <<65535, 65535, 0, 0>>>> :> <<0, 0, 0, 0>>
    @@ <<<<0, 0, 0, 0>>, <<0, 0, 1, 0>>>> :> <<0, 0, 0, 0>>
    @@ <<<<0, 0, 0, 0>>, <<1, 0, 1, 0>>>> :> <<0, 0, 0, 0>>
    @@ <<<<0, 0, 0, 0>>, <<65535, 65535, 1, 0>>>> :> <<0, 0, 0, 0>>
    @@ <<<<1, 0, 0, 0>>, <<0, 0, 0, 0>>>> :> <<0, 0, 0, 32752>>
    @@ <<<<1, 0, 0, 0>>, <<1, 0, 0, 0>>>> :> <<0, 0, 0, 16368>>
    @@ <<<<1, 0, 0, 0>>, <<65535, 65535, 0, 0>>>> :> <<0, 16, 0, 15856>>
    @@ <<<<1, 0, 0, 0>>, <<0, 0, 1, 0>>>> :> <<0, 0, 0, 15856>>
    @@ <<<<1, 0, 0, 0>>, <<1, 0, 1, 0>>>> :> <<0, 65504, 65535, 15855>>
    @@ <<<<1, 0, 0, 0>>, <<65535, 65535, 1, 0>>>> :> <<0, 8, 0, 15840>>
    @@ <<<<65535, 65535, 0, 0>>, <<0, 0, 0, 0>>>> :> <<0, 0, 0, 32752>>
    @@ <<<<65535, 65535, 0, 0>>, <<1, 0, 0, 0>>>> :> <<0, 65504, 65535, 16879>>
    @@ <<<<65535, 65535, 0, 0>>, <<65535, 65535, 0, 0>>>> :> <<0, 0, 0, 16368>>
    @@ <<<<65535, 65535, 0, 0>>, <<0, 0, 1, 0>>>> :> <<0, 65504, 65535, 16367>>
    @@ <<<<65535, 65535, 0, 0>>, <<1, 0, 1, 0>>>> :> <<0, 65472, 65535, 16367>>
    @@ <<<<65535, 65535, 0, 0>>, <<65535, 65535, 1, 0>>>> :> <<0, 65520, 65535, 16351>>
    @@ <<<<0, 0, 1, 0>>, <<0, 0, 0, 0>>>> :> <<0, 0, 0, 32752>>
    @@ <<<<0, 0, 1, 0>>, <<1, 0, 0, 0>>>> :> <<0, 0, 0, 16880>>
    @@ <<<<0, 0, 1, 0>>, <<65535, 65535, 0, 0>>>> :> <<0, 16, 0, 16368>>
    @@ <<<<0, 0, 1, 0>>, <<0, 0, 1, 0>>>> :> <<0, 0, 0, 16368>>
    @@ <<<<0, 0, 1, 0>>, <<1, 0, 1, 0>>>> :> <<0, 65504, 65535, 16367>>
    @@ <<<<0, 0, 1, 0>>, <<65535, 65535, 1, 0>>>> :> <<0, 8, 0, 16352>>
    @@ <<<<1, 0, 1, 0>>, <<0, 0, 0, 0>>>> :> <<0, 0, 0, 32752>>
    @@ <<<<1, 0, 1, 0>>, <<1, 0, 0, 0>>>> :> <<0, 16, 0, 16880>>
    @@ <<<<1, 0, 1, 0>>, <<65535, 65535, 0, 0>>>> :> <<0, 32, 0, 16368>>
    @@ <<<<1, 0, 1, 0>>, <<0, 0, 1, 0>>>> :> <<0, 16, 0, 16368>>
    @@ <<<<1, 0, 1, 0>>, <<1, 0, 1, 0>>>> :> <<0, 0, 0, 16368>>
    @@ <<<<1, 0, 1, 0>>, <<65535, 65535, 1, 0>>>> :> <<0, 24, 0, 16352>>
    @@ <<<<65535, 65535, 1, 0>>, <<0, 0, 0, 0>>>> :> <<0, 0, 0, 32752>>
    @@ <<<<65535, 65535, 1, 0>>, <<1, 0, 0, 0>>>> :> <<0, 65520, 65535, 16895>>
    @@ <<<<65535, 65535, 1, 0>>, <<65535, 65535, 0, 0>>>> :> <<0, 8, 0, 16384>>
    @@ <<<<65535, 65535, 1, 0>>, <<0, 0, 1, 0>>>> :> <<0, 65520, 65535, 16383>>
    @@ <<<<65535, 65535, 1, 0>>, <<1, 0, 1, 0>>>> :> <<0, 65488, 65535, 16383>>
    @@ <<<<65535, 65535, 1, 0>>, <<65535, 65535, 1, 0>>>> :> <<0, 0, 0, 16368>>

F64_REM ==
       <<<<0, 0, 0, 0>>, <<0, 0, 0, 0>>>> :> <<>>
    @@ <<<<0, 0, 0, 0>>, <<1, 0, 0, 0>>>> :> <<0, 0, 0, 0>>
    @@ <<<<0, 0, 0, 0>>, <<65535, 65535, 0, 0>>>> :> <<0, 0, 0, 0>>
    @@ <<<<0, 0, 0, 0>>, <<0, 0, 1, 0>>>> :> <<0, 0, 0, 0>>
    @@ <<<<0, 0, 0, 0>>, <<1, 0, 1, 0>>>> :> <<0, 0, 0, 0>>
    @@ <<<<0, 0, 0, 0>>, <<65535, 65535, 1, 0>>>> :> <<0, 0, 0, 0>>
    @@ <<<<1, 0, 0, 0>>, <<0, 0, 0, 0>>>> :> <<>>
    @@ <<<<1, 0, 0, 0>>, <<1, 0, 0, 0>>>> :> <<0, 0, 0, 0>>
    @@ <<<<1, 0, 0, 0>>, <<65535, 65535, 0, 0>>>> :> <<1, 0, 0, 0>>
    @@ <<<<1, 0, 0, 0>>, <<0, 0, 1, 0>>>> :> <<1, 0, 0, 0>>
    @@ <<<<1, 0, 0, 0>>, <<1, 0, 1, 0>>>> :> <<1, 0, 0, 0>>
    @@ <<<<1, 0, 0, 0>>, <<65535, 65535, 1, 0>>>> :> <<1, 0, 0, 0>>
    @@ <<<<65535, 65535, 0, 0>>, <<0, 0, 0, 0>>>> :> <<>>
    @@ <<<<65535, 65535, 0, 0>>, <<1, 0, 0, 0>>>> :> <<0, 0, 0, 0>>
    @@ <<<<65535, 65535, 0, 0>>, <<65535, 65535, 0, 0>>>> :> <<0, 0, 0, 0>>
    @@ <<<<65535, 65535, 0, 0>>, <<0, 0, 1, 0>>>> :> <<65535, 65535, 0, 0>>
    @@ <<<<65535, 65535, 0, 0>>, <<1, 0, 1, 0>>>> :> <<65535, 65535, 0, 0>>
    @@ <<<<65535, 65535, 0, 0>>, <<65535, 65535, 1, 0>>>> :> <<65535, 65535, 0, 0>>
    @@ <<<<0, 0, 1, 0>>, <<0, 0, 0, 0>>>> :> <<>>
    @@ <<<<0, 0, 1, 0>>, <<1, 0, 0, 0>>>> :> <<0, 0, 0, 0>>
    @@ <<<<0, 0, 1, 0>>, <<65535, 65535, 0, 0>>>> :> <<1, 0, 0, 0>>
    @@ <<<<0, 0, 1, 0>>, <<0, 0, 1, 0>>>> :> <<0, 0, 0, 0>>
    @@ <<<<0, 0, 1, 0>>, <<1, 0, 1, 0>>>> :> <<0, 0, 1, 0>>
    @@ <<<<0, 0, 1, 0>>, <<65535, 65535, 1, 0>>>> :> <<0, 0, 1, 0>>
    @@ <<<<1, 0, 1, 0>>, <<0, 0, 0, 0>>>> :> <<>>
    @@ <<<<1, 0, 1, 0>>, <<1, 0, 0, 0>>>> :> <<0, 0, 0, 0>>
    @@ <<<<1, 0, 1, 0>>, <<65535, 65535, 0, 0>>>> :> <<2, 0, 0, 0>>
    @@ <<<<1, 0, 1, 0>>, <<0, 0, 1, 0>>>> :> <<1, 0, 0, 0>>
    @@ <<<<1, 0, 1, 0>>, <<1, 0, 1, 0>>>> :> <<0, 0, 0, 0>>
    @@ <<<<1, 0, 1, 0>>, <<65535, 65535, 1, 0>>>> :> <<1, 0, 1, 0>>
    @@ <<<<65535, 65535, 1, 0>>, <<0, 0, 0, 0>>>> :> <<>>
    @@ <<<<65535, 65535, 1, 0>>, <<1, 0, 0, 0>>>> :> <<0, 0, 0, 0>>
    @@ <<<<65535, 65535, 1, 0>>, <<65535, 65535, 0, 0>>>> :> <<1, 0, 0, 0>>
    @@ <<<<65535, 65535, 1, 0>>, <<0, 0, 1, 0>>>> :> <<65535, 65535, 0, 0>>
    @@ <<<<65535, 65535, 1, 0>>, <<1, 0, 1, 0>>>> :> <<65534, 65535, 0, 0>>
    @@ <<<<65535, 65535, 1, 0>>, <<65535, 65535, 1, 0>>>> :> <<0, 0, 0, 0>>

\* FLOAT_TABLES_END

FloatTable(T, op) ==
    CASE T = "f32" /\ op = "add" -> F32_ADD
      [] T = "f32" /\ op = "sub" -> F32_SUB
      [] T = "f32" /\ op = "mul" -> F32_MUL
      [] T = "f32" /\ op = "div" -> F32_DIV
      [] T = "f32" /\ op = "rem" -> F32_REM
      [] T = "f64" /\ op = "add" -> F64_ADD
      [] T = "f64" /\ op = "sub" -> F64_SUB
      [] T = "f64" /\ op = "mul" -> F64_MUL
      [] T = "f64" /\ op = "div" -> F64_DIV
      [] T = "f64" /\ op = "rem" -> F64_REM

\* What the hardware and the compiler leave open in a NaN result: its sign,
\* and whether its payload is the preferred one (zero) or an operand's.
NanChoices == [sign : {0, 1}, payload : {"preferred", "a", "b"}]

\* The quiet bit set over the payload kept.
QuietNan(T, sign, payload) ==
    IF T = "f32"
    THEN <<payload[1], sign * HalfLimb + 32704 + (payload[2] % 64)>>
    ELSE <<payload[1], payload[2], payload[3],
           sign * HalfLimb + 32760 + (payload[4] % 8)>>

NanResult(T, a, b, hw) ==
    LET from == IF hw.payload = "a" /\ is_nan(T, a) THEN a
                ELSE IF hw.payload = "b" /\ is_nan(T, b) THEN b
                ELSE Zero(Len(a))
    IN  QuietNan(T, hw.sign, from)

float_arith(T, op, a, b, hw) ==
    IF is_nan(T, a) \/ is_nan(T, b) THEN NanResult(T, a, b, hw)
    ELSE LET res == FloatTable(T, op)[<<a, b>>]
         IN  IF res = <<>> THEN NanResult(T, a, b, hw) ELSE res

-----------------------------------------------------------------------------
(* instructions/math.rs.                                                   *)

Value(v) == [r |-> "Ok", v |-> <<v>>]

\* An operation on the bits of two i32.
OnI32(op(_, _), a, b) == Value(FromLimbs(op(ToLimbs(a), ToLimbs(b))))

\* wrapping_div and wrapping_rem panic on a zero divisor.
DivI32(op(_, _), a, b) ==
    IF b = 0 THEN [r |-> "panic_div", v |-> <<>>] ELSE OnI32(op, a, b)

DivI64(op(_, _), a, b) ==
    IF b = Zero(4) THEN [r |-> "panic_div", v |-> <<>>] ELSE Value(op(a, b))

MASK == 63

\* b as u32 & MASK
shift_amount(b) == b % (MASK + 1)

\* A shift of an i32 by 32 or more overflows: the build panics or takes the
\* amount modulo 32.
ShiftI32(op(_, _), a, b) ==
    IF shift_amount(b) >= 32 /\ overflow_checks
    THEN [r |-> "panic_overflow", v |-> <<b>>]
    ELSE Value(FromLimbs(op(ToLimbs(a), shift_amount(b) % 32)))

math_process(code, fs, hw) ==
    last_mut(fs, LAMBDA frame :
    LET opcode == Opcode_from(code)
        IntOp(op(_, _)) ==
            binary_op("i32", "i32", frame, LAMBDA a, b : OnI32(op, a, b))
        LongOp(op(_, _)) ==
            binary_op("i64", "i64", frame, LAMBDA a, b : Value(op(a, b)))
        FloatOp(op) ==
            binary_op("f32", "f32", frame,
                      LAMBDA a, b : Value(float_arith("f32", op, a, b, hw)))
        DoubleOp(op) ==
            binary_op("f64", "f64", frame,
                      LAMBDA a, b : Value(float_arith("f64", op, a, b, hw)))
    IN  CASE opcode = "IADD" -> IntOp(wrapping_add)
          [] opcode = "LADD" -> LongOp(wrapping_add)
          [] opcode = "FADD" -> FloatOp("add")
          [] opcode = "DADD" -> DoubleOp("add")
          [] opcode = "ISUB" -> IntOp(wrapping_sub)
          [] opcode = "LSUB" -> LongOp(wrapping_sub)
          [] opcode = "FSUB" -> FloatOp("sub")
          [] opcode = "DSUB" -> DoubleOp("sub")
          [] opcode = "IMUL" -> IntOp(wrapping_mul)
          [] opcode = "LMUL" -> LongOp(wrapping_mul)
          [] opcode = "FMUL" -> FloatOp("mul")
          [] opcode = "DMUL" -> DoubleOp("mul")
          [] opcode = "IDIV" ->
                binary_op("i32", "i32", frame,
                          LAMBDA a, b : DivI32(wrapping_div, a, b))
          [] opcode = "LDIV" ->
                binary_op("i64", "i64", frame,
                          LAMBDA a, b : DivI64(wrapping_div, a, b))
          [] opcode = "FDIV" -> FloatOp("div")
          [] opcode = "DDIV" -> DoubleOp("div")
          [] opcode = "IREM" ->
                binary_op("i32", "i32", frame,
                          LAMBDA a, b : DivI32(wrapping_rem, a, b))
          [] opcode = "LREM" ->
                binary_op("i64", "i64", frame,
                          LAMBDA a, b : DivI64(wrapping_rem, a, b))
          [] opcode = "FREM" -> FloatOp("rem")
          [] opcode = "DREM" -> DoubleOp("rem")
          [] opcode = "LSHL" ->
                binary_op("i64", "i32", frame,
                          LAMBDA a, b : Value(ShiftLeft(a, shift_amount(b))))
          [] opcode = "LSHR" ->
                binary_op("i64", "i32", frame,
                          LAMBDA a, b : Value(ShiftRight(a, shift_amount(b))))
          [] opcode = "ISHR" ->
                binary_op("i32", "i32", frame,
                          LAMBDA a, b : ShiftI32(ShiftRight, a, b))
          [] opcode = "IUSHR" ->
                binary_op("i32", "i32", frame,
                          LAMBDA a, b : ShiftI32(UnsignedShiftRight, a, b))
          [] opcode = "LUSHR" ->
                binary_op("i64", "i32", frame,
                          LAMBDA a, b :
                              Value(UnsignedShiftRight(a, shift_amount(b))))
          [] opcode = "IAND" -> IntOp(bitand)
          [] opcode = "LAND" -> LongOp(bitand)
          [] opcode = "IOR" -> IntOp(bitor)
          [] opcode = "LOR" -> LongOp(bitor)
          [] opcode = "IXOR" -> IntOp(bitxor)
          [] opcode = "LXOR" -> LongOp(bitxor)
          [] opcode = "IINC" -> increment(frame)
          [] OTHER -> Panic(frame, "panic_unreachable",
                         <<"Tried perform math operation with", code>>))

-----------------------------------------------------------------------------
(* instructions/conversions.rs.  CONVERSION_TABLES_BEGIN                   *)

I2F_TABLE ==
       -1 :> <<0, 49024>>
    @@ 0 :> <<0, 0>>
    @@ 1 :> <<0, 16256>>

I2D_TABLE ==
       -1 :> <<0, 0, 0, 49136>>
    @@ 0 :> <<0, 0, 0, 0>>
    @@ 1 :> <<0, 0, 0, 16368>>

L2F_TABLE ==
       <<0, 0, 0, 0>> :> <<0, 0>>
    @@ <<1, 0, 0, 0>> :> <<0, 16256>>
    @@ <<65535, 65535, 0, 0>> :> <<0, 20352>>
    @@ <<0, 0, 1, 0>> :> <<0, 20352>>
    @@ <<1, 0, 1, 0>> :> <<0, 20352>>
    @@ <<65535, 65535, 1, 0>> :> <<0, 20480>>
    @@ <<0, 0, 65535, 65535>> :> <<0, 53120>>
    @@ <<1, 0, 65535, 65535>> :> <<0, 53120>>
    @@ <<65535, 65535, 65535, 65535>> :> <<0, 49024>>

L2D_TABLE ==
       <<0, 0, 0, 0>> :> <<0, 0, 0, 0>>
    @@ <<1, 0, 0, 0>> :> <<0, 0, 0, 16368>>
    @@ <<65535, 65535, 0, 0>> :> <<0, 65504, 65535, 16879>>
    @@ <<0, 0, 1, 0>> :> <<0, 0, 0, 16880>>
    @@ <<1, 0, 1, 0>> :> <<0, 16, 0, 16880>>
    @@ <<65535, 65535, 1, 0>> :> <<0, 65520, 65535, 16895>>
    @@ <<0, 0, 65535, 65535>> :> <<0, 0, 0, 49648>>
    @@ <<1, 0, 65535, 65535>> :> <<0, 65504, 65535, 49647>>
    @@ <<65535, 65535, 65535, 65535>> :> <<0, 0, 0, 49136>>

F2I_TABLE ==
       <<0, 0>> :> 0
    @@ <<1, 0>> :> 0
    @@ <<65535, 65535>> :> 0

F2L_TABLE ==
       <<0, 0>> :> <<0, 0, 0, 0>>
    @@ <<1, 0>> :> <<0, 0, 0, 0>>
    @@ <<65535, 65535>> :> <<0, 0, 0, 0>>

F2D_TABLE ==
       <<0, 0>> :> <<0, 0, 0, 0>>
    @@ <<1, 0>> :> <<0, 0, 0, 13984>>

D2I_TABLE ==
       <<0, 0, 0, 0>> :> 0
    @@ <<1, 0, 0, 0>> :> 0
    @@ <<65535, 65535, 0, 0>> :> 0
    @@ <<0, 0, 1, 0>> :> 0
    @@ <<1, 0, 1, 0>> :> 0
    @@ <<65535, 65535, 1, 0>> :> 0
    @@ <<0, 0, 65535, 65535>> :> 0
    @@ <<1, 0, 65535, 65535>> :> 0
    @@ <<65535, 65535, 65535, 65535>> :> 0

D2L_TABLE ==
       <<0, 0, 0, 0>> :> <<0, 0, 0, 0>>
    @@ <<1, 0, 0, 0>> :> <<0, 0, 0, 0>>
    @@ <<65535, 65535, 0, 0>> :> <<0, 0, 0, 0>>
    @@ <<0, 0, 1, 0>> :> <<0, 0, 0, 0>>
    @@ <<1, 0, 1, 0>> :> <<0, 0, 0, 0>>
    @@ <<65535, 65535, 1, 0>> :> <<0, 0, 0, 0>>
    @@ <<0, 0, 65535, 65535>> :> <<0, 0, 0, 0>>
    @@ <<1, 0, 65535, 65535>> :> <<0, 0, 0, 0>>
    @@ <<65535, 65535, 65535, 65535>> :> <<0, 0, 0, 0>>

D2F_TABLE ==
       <<0, 0, 0, 0>> :> <<0, 0>>
    @@ <<1, 0, 0, 0>> :> <<0, 0>>
    @@ <<65535, 65535, 0, 0>> :> <<0, 0>>
    @@ <<0, 0, 1, 0>> :> <<0, 0>>
    @@ <<1, 0, 1, 0>> :> <<0, 0>>
    @@ <<65535, 65535, 1, 0>> :> <<0, 0>>

\* CONVERSION_TABLES_END

\* `from as i8 as i32`, `from as u16 as i32`, `from as i16 as i32`
i32_as_i8_as_i32(v) == u8_as_i8(v % 256)
i32_as_u16_as_i32(v) == v % Limb
i32_as_i16_as_i32(v) == IF v % Limb >= HalfLimb THEN (v % Limb) - Limb ELSE v % Limb

f32_as_f64(from, hw) ==
    IF f32_is_nan(from)
    THEN QuietNan("f64", hw.sign,
                  IF hw.payload = "preferred" THEN Zero(4)
                  ELSE ShiftLeft(<<from[1], from[2] % 128, 0, 0>>, 29))
    ELSE F2D_TABLE[from]

f64_as_f32(from, hw) ==
    IF f64_is_nan(from)
    THEN QuietNan("f32", hw.sign,
                  IF hw.payload = "preferred" THEN Zero(2)
                  ELSE SubSeq(UnsignedShiftRight(
                                  <<from[1], from[2], from[3], from[4] % 16>>,
                                  29), 1, 2))
    ELSE D2F_TABLE[from]

\* The enum of opcode.rs has no variant for the conversions, so no byte
\* decodes to one: the arms are taken by the variant's name.
conversions_process(opcode, fs, hw) ==
    last_mut(fs, LAMBDA frame :
    CASE opcode = "I2L" ->
            convert("i32", "i64", frame, LAMBDA from : i32_as_i64(from))
      [] opcode = "I2F" ->
            convert("i32", "f32", frame, LAMBDA from : I2F_TABLE[from])
      [] opcode = "I2D" ->
            convert("i32", "f64", frame, LAMBDA from : I2D_TABLE[from])
      [] opcode = "L2I" ->
            convert("i64", "i32", frame, LAMBDA from : i64_as_i32(from))
      [] opcode = "L2F" ->
            convert("i64", "f32", frame, LAMBDA from : L2F_TABLE[from])
      [] opcode = "L2D" ->
            convert("i64", "f64", frame, LAMBDA from : L2D_TABLE[from])
      [] opcode = "F2I" ->
            convert("f32", "i32", frame, LAMBDA from : F2I_TABLE[from])
      [] opcode = "F2L" ->
            convert("f32", "i64", frame, LAMBDA from : F2L_TABLE[from])
      [] opcode = "F2D" ->
            convert("f32", "f64", frame, LAMBDA from : f32_as_f64(from, hw))
      [] opcode = "D2I" ->
            convert("f64", "i32", frame, LAMBDA from : D2I_TABLE[from])
      [] opcode = "D2L" ->
            convert("f64", "i64", frame, LAMBDA from : D2L_TABLE[from])
      [] opcode = "D2F" ->
            convert("f64", "f32", frame, LAMBDA from : f64_as_f32(from, hw))
      [] opcode = "I2B" ->
            convert("i32", "i32", frame, LAMBDA from : i32_as_i8_as_i32(from))
      [] opcode = "I2C" ->
            convert("i32", "i32", frame, LAMBDA from : i32_as_u16_as_i32(from))
      [] opcode = "I2S" ->
            convert("i32", "i32", frame, LAMBDA from : i32_as_i16_as_i32(from))
      [] OTHER -> Panic(frame, "panic_unreachable",
                     <<"Tried to call conversion with", as_u8(opcode)>>))

-----------------------------------------------------------------------------
(* instructions/comparisons.rs.                                            *)

comparisons_process(code, fs) ==
    last_mut(fs, LAMBDA frame :
    LET opcode == Opcode_from(code)
    IN  CASE opcode = "LCMP" -> compare("i64", frame, 0)
          [] opcode = "FCMPL" -> compare("f32", frame, -1)
          [] opcode = "DCMPL" -> compare("f32", frame, -1)
          [] opcode = "DCMPG" -> compare("f64", frame, 1)
          [] opcode = "FCMPG" -> compare("f32", frame, 1)
          [] opcode = "IFEQ" -> unary_branch(frame, LAMBDA a : a = 0)
          [] opcode = "IFNE" -> unary_branch(frame, LAMBDA a : a # 0)
          [] opcode = "IFLT" -> unary_branch(frame, LAMBDA a : a < 0)
          [] opcode = "IFGT" -> unary_branch(frame, LAMBDA a : a > 0)
          [] opcode = "IFLE" -> unary_branch(frame, LAMBDA a : a <= 0)
          [] opcode = "IFGE" -> unary_branch(frame, LAMBDA a : a >= 0)
          [] opcode \in {"IF_ICMPEQ", "IF_ACMPEQ"} ->
                binary_branch(frame, LAMBDA a, b : a = b)
          [] opcode \in {"IF_ICMPNE", "IF_ACMPNE"} ->
                binary_branch(frame, LAMBDA a, b : a # b)
          [] opcode = "IF_ICMPLT" -> binary_branch(frame, LAMBDA a, b : a < b)
          [] opcode = "IF_ICMPLE" -> binary_branch(frame, LAMBDA a, b : a <= b)
          [] opcode = "IF_ICMPGT" -> binary_branch(frame, LAMBDA a, b : a > b)
          [] opcode = "IF_ICMPGE" -> binary_branch(frame, LAMBDA a, b : a >= b)
          [] OTHER -> Panic(frame, "panic_unreachable",
                         <<"Tried to perform comparation with", code>>))

-----------------------------------------------------------------------------
(* instructions/mod.rs: the dispatcher.                                    *)

process(code, fs, hw) ==
    CASE code \in 0..20 -> constants_process(code, fs)
      [] code \in 21..53 -> loads_process(code, fs)
      [] code \in 54..86 -> stores_process(code, fs)
      [] code \in 87..95 -> stack_process(code, fs)
      [] code \in 96..132 -> math_process(code, fs, hw)
      [] OTHER -> [fs |-> fs, r |-> "panic_unreachable", v |-> <<"Tried to process", code>>]

-----------------------------------------------------------------------------
(* The states common to every specification.                               *)

IsPanic(r) == r \in Panics

NoCall == [fn |-> "new", T |-> "", arg |-> <<>>]
NoResult == [r |-> "Ok", v |-> <<>>]

EmptyHeap == /\ objects = <<>>
             /\ HEAP_ID = 1

\* No thread but the one of the calls, and no method area yet.
SingleThread == /\ METHOD_AREA = <<>>
                /\ threads = <<>>

NoClassfile == /\ entries = <<>>
               /\ reader = [buff |-> <<>>, pos |-> 0]
               /\ classfile = None

\* The frame the calls act on: StackFrames::last_mut().
Top == frames[Len(frames)]

SetTop(f) == frames' = [frames EXCEPT ![Len(frames)] = f]

Returned(fn, T, arg, x) ==
    /\ SetTop(x.f)
    /\ call' = [fn |-> fn, T |-> T, arg |-> arg]
    /\ result' = [r |-> x.r, v |-> x.v]

-----------------------------------------------------------------------------
(* The frame's own interface, called as the unit tests call it:            *)
(* StackFrame::new, push, pop.                                             *)

MaxApiStack == 3

\* 0x0123_4567_89AB_CDEF, and 0x0000_0000_8000_0000 whose low word is negative
ApiLongs == {<<52719, 35243, 17767, 291>>, <<0, 32768, 0, 0>>}
\* 15.12f32 = 0x4171_EB85
ApiFloats == {<<60293, 16753>>}
\* f64::EPSILON = 0x3CB0_0000_0000_0000
ApiDoubles == {<<0, 0, 0, 15536>>}

ApiValues(T) ==
    CASE T = "i32" -> {10, 20}
      [] T = "i64" -> ApiLongs
      [] T = "f32" -> ApiFloats
      [] T = "f64" -> ApiDoubles

InitApi ==
    /\ \E stack_size \in 0..MaxApiStack :
         frames = <<StackFrame_new(0, stack_size, <<>>, "Main")>>
    /\ last = <<>>
    /\ EmptyHeap
    /\ SingleThread
    /\ NoClassfile
    /\ call = NoCall
    /\ result = NoResult
    /\ build \in Builds

ApiPush(T, value) ==
    /\ ~IsPanic(result.r)
    /\ Returned("push", T, <<value>>, push(T, Top, value))
    /\ UNCHANGED <<last, heapVars, areaVars, classVars, build>>

ApiPop(T) ==
    /\ ~IsPanic(result.r)
    /\ Returned("pop", T, <<>>, pop(T, Top))
    /\ UNCHANGED <<last, heapVars, areaVars, classVars, build>>

NextApi ==
    \/ \E T \in Types : \E value \in ApiValues(T) : ApiPush(T, value)
    \/ \E T \in Types : ApiPop(T)

SpecApi == InitApi /\ [][NextApi]_vars

-----------------------------------------------------------------------------
(* Execution.  A frame is made for a program, values are pushed on it as   *)
(* a caller passes them, and then execute() runs its loop, one iteration a *)
(* step.  The handlers of comparisons.rs and conversions.rs, which the     *)
(* dispatcher never calls, are called on the frame directly.               *)

MaxStack == 4
MaxLocals == 2
ArrayLength == 2

\* The values pushed before the run: a handle of the heap, indices, zero
\* and both signs; as float bits, zero, the least subnormal and a NaN.
Samples == {-1, 0, 1}

\* The two bytes after the opcode: as an index and a constant, as a branch
\* offset (0, 1, 3, 511, -32768, -1) and as the next opcodes.
Immediates ==
    {<<0, 0>>, <<0, 1>>, <<0, 3>>, <<1, 255>>, <<128, 0>>, <<255, 255>>}

TakesImmediates(code) ==
    \/ Opcode_from(code) \in
           {"ILOAD", "LLOAD", "FLOAD", "DLOAD", "ALOAD",
            "ISTORE", "LSTORE", "FSTORE", "DSTORE", "ASTORE", "IINC"}
    \/ code \in as_u8("IFEQ")..as_u8("IF_ACMPNE")

\* ICONST_0, IFEQ +7, ICONST_1, ireturn, two bytes of padding, ICONST_2,
\* ireturn; 172 is ireturn in the JVM's instruction set, the enum has no
\* variant for it.
BranchThenReturn ==
    <<as_u8("ICONST_0"), as_u8("IFEQ"), 0, 7, as_u8("ICONST_1"), 172,
      0, 0, as_u8("ICONST_2"), 172>>

Programs ==
    {<<>>, BranchThenReturn}
        \cup {<<code, 0, 0>> : code \in 0..255}
        \cup {<<code>> \o imm :
                code \in {c \in 0..255 : TakesImmediates(c)},
                imm \in Immediates}

\* The heap the run finds: one zeroed array of longs, its handle 1.
HeapAtStart ==
    allocate_array([objects |-> <<>>, HEAP_ID |-> 1], "[J", ArrayLength).heap

Init ==
    /\ \E program \in Programs, stack_size \in 0..MaxStack :
         frames = <<StackFrame_new(MaxLocals, stack_size, program, "Main")>>
    /\ last = <<>>
    /\ objects = HeapAtStart.objects
    /\ HEAP_ID = HeapAtStart.HEAP_ID
    /\ SingleThread
    /\ NoClassfile
    /\ call = [fn |-> "new", code |-> -1, opcode |-> "", before |-> <<>>]
    /\ result = NoResult
    /\ build \in Builds

\* A call is recorded with the byte it read (-1 when it read none), the
\* opcode it ran ("" when it ran none) and the frames it was made on.
Called(fn, code, opcode, x) ==
    /\ frames' = x.fs
    /\ call' = [fn |-> fn, code |-> code, opcode |-> opcode, before |-> frames]
    /\ result' = [r |-> x.r, v |-> x.v]
    /\ UNCHANGED <<last, heapVars, areaVars, classVars, build>>

\* Nothing has run yet: the frame is being prepared.
Preparing == call.fn \in {"new", "push"}

\* A run ends with the first error or panic.
Finished == ~Preparing /\ result.r # "Ok"

\* The caller's frame.push(value) before the run.
Seed(value) ==
    /\ Preparing
    /\ result.r = "Ok"
    /\ Called("push", -1, "",
              last_mut(frames, LAMBDA f : push("i32", f, value)))

FloatOpcodes ==
    {"FADD", "DADD", "FSUB", "DSUB", "FMUL", "DMUL", "FDIV", "DDIV",
     "FREM", "DREM", "F2D", "D2F"}

NanChoicesOf(opcode) ==
    IF opcode \in FloatOpcodes THEN NanChoices
    ELSE {[sign |-> 0, payload |-> "preferred"]}

\* One iteration of execute()'s loop: the byte at pc, then the dispatcher.
\* With no frame left the loop ends and execute() returns `last`.  The
\* call's code is -1 when no byte was read.
execute ==
    /\ ~Finished
    /\ IF frames = <<>>
       THEN Called("execute", -1, "",
                   [fs |-> frames, r |-> "Return", v |-> <<last>>])
       ELSE LET code == current_byte(Top)
            IN  IF code.r # "Ok"
                THEN Called("execute", -1, "",
                            [fs |-> frames, r |-> code.r, v |-> code.v])
                ELSE \E hw \in NanChoicesOf(Opcode_from(code.v[1])) :
                        Called("execute", code.v[1], Opcode_from(code.v[1]),
                               process(code.v[1], frames, hw))

\* comparisons::process on the byte at pc, for the bytes of its opcodes and
\* one byte on each side of them.
Comparisons ==
    /\ ~Finished
    /\ frames # <<>>
    /\ current_byte(Top).r = "Ok"
    /\ current_byte(Top).v[1] \in (as_u8("LCMP") - 1)..(as_u8("IF_ACMPNE") + 1)
    /\ Called("comparisons::process", current_byte(Top).v[1],
              Opcode_from(current_byte(Top).v[1]),
              comparisons_process(current_byte(Top).v[1], frames))

ConversionOpcodes ==
    {"I2L", "I2F", "I2D", "L2I", "L2F", "L2D", "F2I", "F2L", "F2D",
     "D2I", "D2L", "D2F", "I2B", "I2C", "I2S"}

\* conversions::process, once, on a frame that has no bytecode: the
\* handler reads none.
Conversions(opcode) ==
    /\ ~Finished
    /\ frames # <<>>
    /\ Top.bytecode = <<>>
    /\ call.fn # "conversions::process"
    /\ \E hw \in NanChoicesOf(opcode) :
          Called("conversions::process", -1, opcode,
                 conversions_process(opcode, frames, hw))

Next ==
    \/ \E value \in Samples : Seed(value)
    \/ execute
    \/ Comparisons
    \/ \E opcode \in ConversionOpcodes \cup {"NOP"} : Conversions(opcode)

Spec == Init /\ [][Next]_vars

-----------------------------------------------------------------------------
(* Claims about execution.                                                 *)

\* The frame as it was when the last call was made.
Before == call.before[Len(call.before)]

Depth(f) == Len(f.operand_stack.inner)
FreeSlots(f) == f.operand_stack.capacity - Depth(f)

\* C1: in every reachable state every frame has exactly the locals it was
\* made with and an operand stack no deeper than its capacity; no call
\* changes the number of locals or the capacity.
C1_FrameBounds ==
    /\ \A k \in 1..Len(frames) :
          /\ Len(frames[k].variables) = MaxLocals
          /\ Depth(frames[k]) <= frames[k].operand_stack.capacity
    /\ call.fn # "new" =>
          /\ Len(Top.variables) = Len(Before.variables)
          /\ Top.operand_stack.capacity = Before.operand_stack.capacity

\* An opcode that pushes was run on a full stack of the largest capacity:
\* the push was refused and the stack is as deep as it may be.
C1_Witness ==
    /\ call.fn = "execute"
    /\ result.r = "ExceededStackSize"
    /\ Depth(Top) = MaxStack
    /\ Top.operand_stack.capacity = MaxStack
    /\ Len(Top.variables) = MaxLocals

\* The conversions whose result takes one slot more than their operand.
WideningConversions == {"I2L", "I2D", "F2L", "F2D"}

\* C2: a push past max_stack is an ExceededStackSize error for the caller:
\* a direct push on a full stack, and a handler whose result does not fit
\* (I2L and the other widening conversions on a full stack).
C2_PushPastMaxStackIsAnError ==
    /\ (call.fn = "push" /\ FreeSlots(Before) = 0) =>
          result.r = "ExceededStackSize"
    /\ (/\ call.fn = "conversions::process"
        /\ call.opcode \in WideningConversions
        /\ Depth(Before) >= 1
        /\ FreeSlots(Before) = 0) =>
          result.r = "ExceededStackSize"

IsBranch(opcode) ==
    opcode \in {"IFEQ", "IFNE", "IFLT", "IFGE", "IFGT", "IFLE",
                "IF_ICMPEQ", "IF_ICMPNE", "IF_ICMPLT", "IF_ICMPGE",
                "IF_ICMPGT", "IF_ICMPLE", "IF_ACMPEQ", "IF_ACMPNE"}

\* The bytes an instruction takes: the opcode and its immediates.
InstructionLength(opcode) ==
    IF opcode \in {"ILOAD", "LLOAD", "FLOAD", "DLOAD", "ALOAD",
                   "ISTORE", "LSTORE", "FSTORE", "DSTORE", "ASTORE"}
    THEN 2
    ELSE IF opcode = "IINC" THEN 3 ELSE 1

RanAnOpcode == call.opcode # ""

\* C4: pc is 0 in a new frame, and every opcode that is not a branch and
\* ran without error has moved pc on by the length of its instruction.
C4_PcAdvancesByLength ==
    /\ call.fn = "new" => Top.pc = 0
    /\ (RanAnOpcode /\ result.r = "Ok" /\ ~IsBranch(call.opcode)) =>
          Top.pc = Before.pc + InstructionLength(call.opcode)

DispatcherFatal(code) ==
    /\ result.r = "panic_unreachable"
    /\ result.v = <<"Tried to process", code>>

\* C5: the dispatcher hands the bytes 0..=20, 21..=53, 54..=86, 87..=95,
\* 96..=132, 133..=147 and 148..=166 to the seven groups, so that what a
\* byte does is what its group's handler does, and every other byte is
\* fatal with a message that names the byte.
C5_DispatchTable ==
    (call.fn = "execute" /\ call.code >= 0) =>
        LET code == call.code
            group ==
                CASE code \in 0..20 -> constants_process(code, call.before)
                  [] code \in 21..53 -> loads_process(code, call.before)
                  [] code \in 54..86 -> stores_process(code, call.before)
                  [] code \in 87..95 -> stack_process(code, call.before)
                  [] code \in 148..166 ->
                        comparisons_process(code, call.before)
                  [] OTHER -> [fs |-> frames, r |-> result.r]
        IN  /\ code \in (0..95) \cup (148..166) =>
                frames = group.fs /\ result.r = group.r
            /\ code \in 96..147 => ~DispatcherFatal(code)
            /\ code \notin 0..166 => DispatcherFatal(code)

\* C6: execute() on ICONST_0, IFEQ +7, ICONST_1, ireturn, .., ICONST_2,
\* ireturn, started at pc = 0 in a frame with room for the operand, ends
\* only by returning the value 2: the run is over when the first push has
\* been made and a later iteration did not answer Ok.
C6_BranchThenReturnYieldsTwo ==
    (/\ Finished
     /\ call.fn = "execute"
     /\ call.before # <<>>
     /\ Before.bytecode = BranchThenReturn
     /\ Before.pc >= 1) =>
        result.r = "Return" /\ result.v = <<<<2>>>>

-----------------------------------------------------------------------------
(* Claims about the frame's own interface.                                 *)

\* The 64-bit patterns the round trip is tried on: each 32-bit word zero,
\* its sign bit alone, all ones, and all ones below or above the sign
\* limb; and the values the calls push.
Patterns64 ==
    {<<a, b, c, d>> : a, c \in {0, 2^16 - 1}, b, d \in {0, 2^15, 2^16 - 1}}
        \cup ApiLongs \cup ApiDoubles

LowWord(x) == I32(x[1], x[2])
HighWord(x) == I32(x[3], x[4])

RoundTrip(T, f, x) ==
    LET pushed == push(T, f, x)
        popped == pop(T, pushed.f)
    IN  /\ pushed.r = "Ok"
        /\ pushed.f.operand_stack.inner =
               f.operand_stack.inner \o <<LowWord(x), HighWord(x)>>
        /\ popped.r = "Ok"
        /\ popped.v = <<x>>
        /\ popped.f = f

ReverseOrder(T, f, a, b) ==
    LET after == push(T, push(T, f, a).f, b)
        first == pop(T, after.f)
        second == pop(T, first.f)
    IN  /\ after.r = "Ok"
        /\ first.v = <<b>>
        /\ second.v = <<a>>
        /\ second.f = f

\* C3: on every frame with at least two free operand slots, pushing a 64-bit
\* value (i64 or f64 bit pattern) puts its low word and then its high word
\* on the stack, and popping it again yields the same value and the same
\* frame; two one-slot values come back in reverse order.
C3_PushPopRoundTrip ==
    FreeSlots(Top) >= 2 =>
        /\ \A x \in Patterns64 :
               RoundTrip("i64", Top, x) /\ RoundTrip("f64", Top, x)
        /\ \A a, b \in {10, 20, -1, MIN32, MAX32} :
               ReverseOrder("i32", Top, a, b)
        /\ \A a, b \in ApiFloats \cup {<<0, 2^15>>, <<0, 32704>>} :
               ReverseOrder("f32", Top, a, b)

\* A long whose low word is negative has been pushed and popped back whole.
C3_Witness ==
    /\ call = [fn |-> "pop", T |-> "i64", arg |-> <<>>]
    /\ result = [r |-> "Ok", v |-> <<<<0, 32768, 0, 0>>>>]
    /\ FreeSlots(Top) >= 2

-----------------------------------------------------------------------------
(* The class file decoder: the reader, the constant pool, Classfile::new.  *)
(* A reader is a byte buffer and a position in it.  Sixteen-bit and wider  *)
(* values are tuples of 16-bit limbs, least significant first.             *)

\* Where a read_exact that meets the end of the input leaves the reader:
\* where it was, or at the end, as the standard library of the build has it.
EofPositions == {"unchanged", "end"}

ReaderBuilds ==
    [overflow_checks : {FALSE}, target_endian : {"little"},
     eof_position : EofPositions]

read_exact(rd, n) ==
    IF rd.pos + n <= Len(rd.buff)
    THEN [rd |-> [rd EXCEPT !.pos = @ + n], r |-> "Ok",
          v |-> SubSeq(rd.buff, rd.pos + 1, rd.pos + n)]
    ELSE [rd |-> [rd EXCEPT !.pos = IF build.eof_position = "end"
                                      THEN Len(rd.buff) ELSE @],
          r |-> "Io", v |-> <<>>]

\* The limbs of a big-endian byte string of even length.
from_be_bytes(bytes) ==
    LET n == Len(bytes) \div 2
    IN  [k \in 1..n |->
            bytes[2 * (n - k) + 1] * 256 + bytes[2 * (n - k) + 2]]

SizeOf(T) ==
    CASE T \in {"u8", "i8"} -> 1
      [] T \in {"u16", "i16"} -> 2
      [] T \in {"u32", "i32", "f32"} -> 4
      [] T \in {"u64", "i64", "f64"} -> 8

\* T::from_be_bytes on the bytes read: u8 and u16 as numbers, i32 as a
\* number, the others as limbs.
FromBeBytes(T, x) ==
    IF x.r # "Ok" THEN x
    ELSE [x EXCEPT !.v =
            CASE T = "u8" -> <<x.v[1]>>
              [] T = "u16" -> <<from_be_bytes(x.v)[1]>>
              [] T = "i32" -> <<FromLimbs(from_be_bytes(x.v))>>
              [] OTHER -> <<from_be_bytes(x.v)>>]

\* read::<T>
read(T, rd) == FromBeBytes(T, read_exact(rd, SizeOf(T)))

\* One read::<T> after the other, each with `?`: the values in the order
\* read, or the first error.
After(v, x) == IF x.r = "Ok" THEN [x EXCEPT !.v = v \o @] ELSE x

RECURSIVE read_each(_, _)
read_each(rd, types) ==
    IF types = <<>> THEN [rd |-> rd, r |-> "Ok", v |-> <<>>]
    ELSE Then(read(Head(types), rd), LAMBDA x :
             After(x.v, read_each(x.rd, Tail(types))))

\* A constant pool entry: its variant and the numbers it carries (a Utf8
\* its bytes, a Long its four limbs, a MethodRef its two indexes).
Entry(tag, value) == [tag |-> tag, value |-> value]

\* The bytes of the strings the decoder and its tests name.
Utf8Bytes ==
    "ConstantValue" :>
           <<67, 111, 110, 115, 116, 97, 110, 116, 86, 97, 108, 117, 101>>
    @@ "Code" :> <<67, 111, 100, 101>>
    @@ "StackMapTable" :>
           <<83, 116, 97, 99, 107, 77, 97, 112, 84, 97, 98, 108, 101>>
    @@ "Exceptions" :> <<69, 120, 99, 101, 112, 116, 105, 111, 110, 115>>
    @@ "InnerClasses" :>
           <<73, 110, 110, 101, 114, 67, 108, 97, 115, 115, 101, 115>>
    @@ "EnclosingMethod" :>
           <<69, 110, 99, 108, 111, 115, 105, 110, 103, 77, 101, 116, 104,
           111, 100>>
    @@ "Synthetic" :> <<83, 121, 110, 116, 104, 101, 116, 105, 99>>
    @@ "Deprecated" :> <<68, 101, 112, 114, 101, 99, 97, 116, 101, 100>>
    @@ "Signature" :> <<83, 105, 103, 110, 97, 116, 117, 114, 101>>
    @@ "SourceFile" :> <<83, 111, 117, 114, 99, 101, 70, 105, 108, 101>>
    @@ "LineNumberTable" :>
           <<76, 105, 110, 101, 78, 117, 109, 98, 101, 114, 84, 97, 98, 108,
           101>>
    @@ "LocalVariableTable" :>
           <<76, 111, 99, 97, 108, 86, 97, 114, 105, 97, 98, 108, 101, 84,
           97, 98, 108, 101>>
    @@ "LocalVariableTypeTable" :>
           <<76, 111, 99, 97, 108, 86, 97, 114, 105, 97, 98, 108, 101, 84,
           121, 112, 101, 84, 97, 98, 108, 101>>
    @@ "RuntimeVisibleAnnotations" :>
           <<82, 117, 110, 116, 105, 109, 101, 86, 105, 115, 105, 98, 108,
           101, 65, 110, 110, 111, 116, 97, 116, 105, 111, 110, 115>>
    @@ "RuntimeInvisibleAnnotations" :>
           <<82, 117, 110, 116, 105, 109, 101, 73, 110, 118, 105, 115, 105,
           98, 108, 101, 65, 110, 110, 111, 116, 97, 116, 105, 111, 110,
           115>>
    @@ "AnnotationDefault" :>
           <<65, 110, 110, 111, 116, 97, 116, 105, 111, 110, 68, 101, 102,
           97, 117, 108, 116>>
    @@ "MethodParameters" :>
           <<77, 101, 116, 104, 111, 100, 80, 97, 114, 97, 109, 101, 116,
           101, 114, 115>>
    @@ "NestHost" :> <<78, 101, 115, 116, 72, 111, 115, 116>>
    @@ "NestMembers" :> <<78, 101, 115, 116, 77, 101, 109, 98, 101, 114, 115>>
    @@ "Record" :> <<82, 101, 99, 111, 114, 100>>
    @@ "hello world" :>
           <<104, 101, 108, 108, 111, 32, 119, 111, 114, 108, 100>>
    @@ "A" :> <<65>>
    @@ "BootstrapMethods" :>
           <<66, 111, 111, 116, 115, 116, 114, 97, 112, 77, 101, 116, 104,
           111, 100, 115>>

Utf8(string) == Utf8Bytes[string]

NoEntry == Entry("", <<>>)

uses_two_slots(entry) == entry.tag \in {"Long", "Double"}

\* ConstantPool::push without the reserved slot.
ConstantPool_push_one_slot(pool, entry) == Append(pool, Some(entry))

ConstantPool_push(pool, entry) ==
    IF uses_two_slots(entry)
    THEN Append(Append(pool, Some(entry)), None)
    ELSE Append(pool, Some(entry))

\* ConstantPool::get_with taking the index for a 0-based one.
ConstantPool_get_zero_based(pool, index) ==
    IF index >= Len(pool)
    THEN [r |-> "InvalidIndex", v |-> <<index>>]
    ELSE IF pool[index + 1] = None
         THEN [r |-> "UnusableSlot", v |-> <<index>>]
         ELSE [r |-> "Ok", v |-> pool[index + 1]]

\* ConstantPool::get: get_with and the identity closure.
ConstantPool_get(pool, index) ==
    IF index = 0 \/ index > Len(pool)
    THEN [r |-> "InvalidIndex", v |-> <<index>>]
    ELSE LET idx == index - 1
         IN  IF idx + 1 \notin DOMAIN pool
             THEN [r |-> "InvalidIndex", v |-> <<index>>]
             ELSE IF pool[idx + 1] = None
                  THEN [r |-> "UnusableSlot", v |-> <<index>>]
                  ELSE [r |-> "Ok", v |-> pool[idx + 1]]

\* The payload of an entry, read after its tag.
OneIndex(tag, rd) ==
    Then(read("u16", rd), LAMBDA a : [a EXCEPT !.v = <<Entry(tag, a.v)>>])

TwoIndexes(tag, first, rd) ==
    Then(read_each(rd, <<first, "u16">>), LAMBDA b :
        [b EXCEPT !.v = <<Entry(tag, b.v)>>])

Wide(tag, T, rd) ==
    Then(read(T, rd), LAMBDA a :
        [a EXCEPT !.v = <<Entry(tag, IF T = "i32" THEN a.v ELSE a.v[1])>>])

read_entry(tag, rd) ==
    CASE tag = 1 -> [rd |-> rd, r |-> "panic_todo", v |-> <<>>]
      [] tag = 3 -> Wide("Integer", "i32", rd)
      [] tag = 4 -> Wide("Float", "f32", rd)
      [] tag = 5 -> Wide("Long", "i64", rd)
      [] tag = 6 -> Wide("Double", "f64", rd)
      [] tag = 7 -> OneIndex("Class", rd)
      [] tag = 8 -> OneIndex("StringRef", rd)
      [] tag = 9 -> TwoIndexes("FieldRef", "u16", rd)
      [] tag = 10 -> TwoIndexes("MethodRef", "u16", rd)
      [] tag = 11 -> TwoIndexes("InterfaceMethodRef", "u16", rd)
      [] tag = 17 -> TwoIndexes("Dynamic", "u16", rd)
      [] tag = 18 -> TwoIndexes("InvokeDynamic", "u16", rd)
      [] tag = 12 -> TwoIndexes("NameAndType", "u16", rd)
      [] tag = 15 -> TwoIndexes("MethodHandle", "u8", rd)
      [] tag = 16 -> OneIndex("MethodType", rd)
      [] tag = 19 -> OneIndex("Module", rd)
      [] tag = 20 -> OneIndex("Package", rd)
      [] OTHER -> [rd |-> rd, r |-> "panic_unreachable", v |-> <<>>]

\* The loop of ConstantPool::new: `while idx < count`.
RECURSIVE ConstantPool_new_loop(_, _, _, _)
ConstantPool_new_loop(rd, pool, idx, count) ==
    IF ~(idx < count)
    THEN [rd |-> rd, pool |-> pool, r |-> "Ok", v |-> <<>>]
    ELSE Then(read("u8", rd), LAMBDA tag :
         Then(read_entry(tag.v[1], tag.rd), LAMBDA entry :
             ConstantPool_new_loop(
                 entry.rd,
                 ConstantPool_push(pool, entry.v[1]),
                 (IF tag.v[1] \in {5, 6} THEN idx + 1 ELSE idx) + 1,
                 count)))

\* The pool is returned when the loop ends, and dropped on an error.
OrNoPool(x) ==
    IF x.r = "Ok" THEN x
    ELSE [rd |-> x.rd, pool |-> <<>>, r |-> x.r, v |-> <<>>]

ConstantPool_new(rd) ==
    OrNoPool(Then(read("u16", rd), LAMBDA count :
        ConstantPool_new_loop(count.rd, <<>>, 0, count.v[1])))

\* 0xCAFEBABE
MAGIC == <<47806, 51966>>

Version_new(major, minor) == [major |-> major, minor |-> minor]

\* Version::is_valid accepting one major more.
Version_is_valid_through_69(major) == major >= 45 /\ major <= 69

Version_is_valid(major) == major >= 45 /\ major <= 68

\* The bits of the flag sets; from_bits_truncate keeps these and no other.
AccessFlags_all == 1 + 16 + 32 + 512 + 1024 + 4096 + 8192 + 16384 + 32768
FieldFlags_all == 1 + 2 + 4 + 8 + 16 + 64 + 128 + 4096 + 16384
MethodFlags_all ==
    1 + 2 + 4 + 8 + 16 + 32 + 64 + 128 + 256 + 1024 + 2048 + 4096

from_bits_truncate(all, bits) == BitOp("and", bits, all, 16)

AttributeNames ==
    {"ConstantValue", "Code", "StackMapTable", "Exceptions", "InnerClasses",
     "EnclosingMethod", "Synthetic", "Deprecated", "Signature", "SourceFile",
     "LineNumberTable", "LocalVariableTable", "LocalVariableTypeTable",
     "RuntimeVisibleAnnotations", "RuntimeInvisibleAnnotations",
     "AnnotationDefault", "MethodParameters", "NestHost", "NestMembers",
     "Record"}

\* VerificationTypeInfo::try_from(reader): a tag, and for the tags 7 and 8
\* a u16.
VerificationTypeInfo_try_from(rd) ==
    Then(read("u8", rd), LAMBDA tag :
        IF tag.v[1] \in 0..6
        THEN [tag EXCEPT !.v = <<[tag |-> tag.v[1], index |-> 0]>>]
        ELSE IF tag.v[1] \in {7, 8}
        THEN Then(read("u16", tag.rd), LAMBDA x :
                 [x EXCEPT !.v = <<[tag |-> tag.v[1], index |-> x.v[1]]>>])
        ELSE [rd |-> tag.rd, r |-> "panic_unreachable", v |-> <<>>])

\* `for _ in 0..n { types.push(VerificationTypeInfo::try_from(reader)?) }`
RECURSIVE verification_types(_, _, _)
verification_types(rd, n, types) ==
    IF n = 0 THEN [rd |-> rd, r |-> "Ok", v |-> <<types>>]
    ELSE Then(VerificationTypeInfo_try_from(rd), LAMBDA type :
             verification_types(type.rd, n - 1, Append(types, type.v[1])))

\* FrameType::from(value); no kind for the bytes 128 to 246.
FrameType_from(value) ==
    CASE value \in 0..63 -> [kind |-> "SameFrame", k |-> 0]
      [] value \in 64..127 -> [kind |-> "SameStack", k |-> 0]
      [] value = 247 -> [kind |-> "SameStackExtended", k |-> 0]
      [] value \in 248..250 -> [kind |-> "ChopFrame", k |-> 251 - value]
      [] value = 251 -> [kind |-> "SameFrameExtended", k |-> 0]
      [] value \in 252..254 -> [kind |-> "AppendFrame", k |-> value - 251]
      [] value = 255 -> [kind |-> "FullFrame", k |-> 0]
      [] OTHER -> [kind |-> "unreachable", k |-> 0]

StackMapEntry(frame_type, offset_delta, locals, stack) ==
    [frame_type |-> frame_type, offset_delta |-> offset_delta,
     locals |-> locals, stack |-> stack]

\* One entry of the StackMapTable arm, after its frame byte.
stack_map_entry(rd, frame_byte, frame_type) ==
    CASE frame_type.kind = "SameFrame" ->
            [rd |-> rd, r |-> "Ok",
             v |-> <<StackMapEntry(frame_type, frame_byte, <<>>, <<>>)>>]
      [] frame_type.kind = "SameStack" ->
            Then(VerificationTypeInfo_try_from(rd), LAMBDA stack :
                [stack EXCEPT !.v =
                    <<StackMapEntry(frame_type, frame_byte - 64, <<>>,
                                    stack.v)>>])
      [] frame_type.kind = "SameStackExtended" ->
            Then(VerificationTypeInfo_try_from(rd), LAMBDA stack :
                [stack EXCEPT !.v =
                    <<StackMapEntry(frame_type, frame_byte, <<>>,
                                    stack.v)>>])
      [] frame_type.kind \in {"ChopFrame", "SameFrameExtended"} ->
            Then(read("u16", rd), LAMBDA offset_delta :
                [offset_delta EXCEPT !.v =
                    <<StackMapEntry(frame_type, offset_delta.v[1], <<>>,
                                    <<>>)>>])
      [] frame_type.kind = "AppendFrame" ->
            Then(read("u16", rd), LAMBDA offset_delta :
            Then(verification_types(offset_delta.rd, frame_type.k, <<>>),
                 LAMBDA locals :
                [locals EXCEPT !.v =
                    <<StackMapEntry(frame_type, offset_delta.v[1],
                                    locals.v[1], <<>>)>>]))
      [] frame_type.kind = "FullFrame" ->
            \* The offset_delta of a FullFrame is a u8.  The stack count is
            \* read; the stack stays as it was made.
            Then(read_each(rd, <<"u8", "u16">>), LAMBDA head :
            Then(verification_types(head.rd, head.v[2], <<>>),
                 LAMBDA locals :
            Then(read("u16", locals.rd), LAMBDA stack_count :
                [stack_count EXCEPT !.v =
                    <<StackMapEntry(frame_type, head.v[1], locals.v[1],
                                    <<>>)>>])))
      [] OTHER -> [rd |-> rd, r |-> "panic_unreachable", v |-> <<>>]

\* `for _ in 0..stack_map_table_entries { ... entries.push(entry) }`
RECURSIVE stack_map_entries(_, _, _)
stack_map_entries(rd, n, table) ==
    IF n = 0 THEN [rd |-> rd, r |-> "Ok", v |-> <<table>>]
    ELSE Then(read("u8", rd), LAMBDA frame_byte :
         Then(stack_map_entry(frame_byte.rd, frame_byte.v[1],
                              FrameType_from(frame_byte.v[1])),
              LAMBDA entry :
                 stack_map_entries(entry.rd, n - 1,
                                   Append(table, entry.v[1]))))

\* Attribute::new: the name is looked up in the pool, an entry that is not
\* a Utf8 panics in the closure.  A pool made by ConstantPool::new holds no
\* Utf8, so that only the arms without a table and that of the
\* StackMapTable are given here.
Attribute_new(rd, name_index, length, pool) ==
    LET entry == ConstantPool_get(pool, name_index)
    IN  IF entry.r # "Ok" THEN [rd |-> rd, r |-> entry.r, v |-> entry.v]
        ELSE IF entry.v[1].tag # "Utf8"
        THEN [rd |-> rd, r |-> "panic", v |-> <<>>]
        ELSE LET attribute_name == entry.v[1].value
                 Named(names) == attribute_name \in {Utf8(n) : n \in names}
             IN  CASE Named({"Synthetic", "Deprecated"}) ->
                        [rd |-> rd, r |-> "Ok",
                         v |-> <<[name |-> attribute_name, index |-> 0]>>]
                   [] Named({"ConstantValue", "Signature", "SourceFile",
                             "NestHost"}) ->
                        Then(read("u16", rd), LAMBDA x :
                            [x EXCEPT !.v = <<[name |-> attribute_name,
                                               index |-> x.v[1]]>>])
                   [] Named({"StackMapTable"}) ->
                        Then(read("u16", rd), LAMBDA n :
                        Then(stack_map_entries(n.rd, n.v[1], <<>>),
                             LAMBDA table :
                            [table EXCEPT !.v =
                                <<[name |-> attribute_name, index |-> 0,
                                   entries |-> table.v[1]]>>]))
                   [] ~Named(AttributeNames) ->
                        [rd |-> rd, r |-> "panic_unimplemented", v |-> <<>>]

RECURSIVE get_attributes_loop(_, _, _, _)
get_attributes_loop(rd, n, pool, attributes) ==
    IF n = 0 THEN [rd |-> rd, r |-> "Ok", v |-> <<attributes>>]
    ELSE Then(read_each(rd, <<"u16", "u32">>), LAMBDA head :
         Then(Attribute_new(head.rd, head.v[1], head.v[2], pool),
              LAMBDA attribute :
                  get_attributes_loop(attribute.rd, n - 1, pool,
                                      Append(attributes, attribute.v[1]))))

get_attributes(rd, pool) ==
    Then(read("u16", rd), LAMBDA attributes_count :
        get_attributes_loop(attributes_count.rd, attributes_count.v[1],
                            pool, <<>>))

\* One field_info or method_info: flags, name, descriptor, attributes.
Member(rd, pool, all) ==
    Then(read_each(rd, <<"u16", "u16", "u16">>), LAMBDA head :
    Then(get_attributes(head.rd, pool), LAMBDA attributes :
        [attributes EXCEPT !.v =
            <<[access_flags |-> from_bits_truncate(all, head.v[1]),
               name_index |-> head.v[2],
               descriptor_index |-> head.v[3],
               attributes |-> attributes.v[1]]>>]))

RECURSIVE Members(_, _, _, _, _)
Members(rd, n, pool, all, members) ==
    IF n = 0 THEN [rd |-> rd, r |-> "Ok", v |-> <<members>>]
    ELSE Then(Member(rd, pool, all), LAMBDA entry :
             Members(entry.rd, n - 1, pool, all,
                     Append(members, entry.v[1])))

parse_fields(rd, pool) ==
    Then(read("u16", rd), LAMBDA fields_count :
        Members(fields_count.rd, fields_count.v[1], pool, FieldFlags_all,
                <<>>))

\* methods.rs: a u16 count and that many method_info structures.
parse_methods(rd, pool) ==
    Then(read("u16", rd), LAMBDA methods_count :
        Members(methods_count.rd, methods_count.v[1], pool, MethodFlags_all,
                <<>>))

RECURSIVE read_interfaces(_, _, _)
read_interfaces(rd, n, interfaces) ==
    IF n = 0 THEN [rd |-> rd, r |-> "Ok", v |-> <<interfaces>>]
    ELSE Then(read("u16", rd), LAMBDA index :
             read_interfaces(index.rd, n - 1,
                             Append(interfaces, index.v[1])))

\* What Classfile::new returns, the pool it made and the reader as it
\* leaves it.
Decoded(x, pool, class) ==
    [rd |-> x.rd, r |-> x.r, v |-> x.v, pool |-> pool, class |-> class]

\* An error return: the pool and the class are dropped with the arena.
Failed(x) == Decoded(x, <<>>, <<>>)

OrFailed(x) == IF x.r = "Ok" THEN x ELSE Failed(x)

\* Classfile::new from the constant pool on.
Classfile_body(rd, version) ==
    Then(ConstantPool_new(rd), LAMBDA constant_pool :
    Then(read_each(constant_pool.rd, <<"u16", "u16", "u16", "u16">>),
         LAMBDA head :
    Then(read_interfaces(head.rd, head.v[4], <<>>), LAMBDA interfaces :
    Then(parse_fields(interfaces.rd, constant_pool.pool), LAMBDA fields :
    Then(parse_methods(fields.rd, constant_pool.pool), LAMBDA methods :
        Decoded(
            [rd |-> methods.rd, r |-> "Ok", v |-> <<>>],
            constant_pool.pool,
            <<[version |-> version,
               access_flags |->
                  from_bits_truncate(AccessFlags_all, head.v[1]),
               this_class |-> head.v[2],
               super_class |-> head.v[3],
               interfaces |-> interfaces.v[1],
               fields |-> fields.v[1],
               methods |-> methods.v[1]]>>))))))

Classfile_new(buff) ==
    OrFailed(
        Then(read("u32", [buff |-> buff, pos |-> 0]), LAMBDA magic :
            IF magic.v[1] # MAGIC
            THEN [magic EXCEPT !.r = "InvalidClassfile", !.v = <<>>]
            ELSE Then(read_each(magic.rd, <<"u16", "u16">>), LAMBDA head :
                     LET minor == head.v[1]
                         major == head.v[2]
                     IN  IF ~Version_is_valid(major)
                         THEN [head EXCEPT !.r = "Version", !.v = <<major>>]
                         ELSE Classfile_body(head.rd,
                                             Version_new(major, minor)))))

-----------------------------------------------------------------------------
(* The constant pool as its unit test uses it: an empty pool, push, get.   *)

MaxPoolEntries == 3

\* The entries of the unit test, one of each shape.
PoolEntries ==
    {Entry("Utf8", Utf8("hello world")), Entry("Integer", <<1>>),
     Entry("Long", <<2, 0, 0, 0>>), Entry("Double", <<0, 0, 0, 15536>>),
     Entry("Class", <<1>>), Entry("MethodRef", <<1, 7>>)}

\* Every index into the largest pool, one past it, and the largest u16.
PoolIndexes == (0..(2 * MaxPoolEntries + 1)) \cup {2^16 - 1}

\* A call on the pool: its name, the index or entry it was given, and the
\* entries pushed so far.
PoolCall(fn, index, entry, pushed) ==
    [fn |-> fn, index |-> index, entry |-> entry, pushed |-> pushed]

InitPool ==
    /\ frames = <<>>
    /\ last = <<>>
    /\ EmptyHeap
    /\ SingleThread
    /\ NoClassfile
    /\ call = PoolCall("default", -1, NoEntry, <<>>)
    /\ result = NoResult
    /\ build \in ReaderBuilds

PoolPush(entry) ==
    /\ call.fn \in {"default", "push", "get"}
    /\ Len(call.pushed) < MaxPoolEntries
    /\ entries' = ConstantPool_push(entries, entry)
    /\ call' = PoolCall("push", -1, entry, Append(call.pushed, entry))
    /\ result' = NoResult
    /\ UNCHANGED <<frameVars, heapVars, areaVars, reader, classfile,
                   build>>

\* get on a pool that exists: one being filled, or one a decoder returned.
PoolGet(index) ==
    /\ \/ call.fn \in {"default", "push", "get"}
       \/ call.fn \in {"Classfile::new", "ConstantPool::new"}
          /\ result.r = "Ok"
    /\ call' = PoolCall("get", index, NoEntry, call.pushed)
    /\ result' = ConstantPool_get(entries, index)
    /\ UNCHANGED <<frameVars, heapVars, areaVars, classVars, build>>

NextPool ==
    \/ \E entry \in PoolEntries : PoolPush(entry)
    \/ \E index \in PoolIndexes : PoolGet(index)

SpecPool == InitPool /\ [][NextPool]_vars

-----------------------------------------------------------------------------
(* Decoding: Classfile::new on a buffer, and ConstantPool::new on a reader *)
(* that stands at the pool.                                                *)

MaxClassEntries == 2

\* Entries as the class file has them: Integer -2, Long
\* 0x0123_4567_89AB_CDEF, Class 1, MethodRef 1.7, MethodHandle 1 2,
\* Utf8 "A", and the tag 2 no entry has.
EncodedEntries ==
    {<<3, 255, 255, 255, 254>>,
     <<5, 1, 35, 69, 103, 137, 171, 205, 239>>,
     <<7, 0, 1>>,
     <<10, 0, 1, 0, 7>>,
     <<15, 1, 0, 2>>,
     <<1, 0, 1, 65>>,
     <<2, 0>>}

\* Up to n entries one after the other, with the slots they take.
RECURSIVE PoolBodies(_)
PoolBodies(n) ==
    IF n = 0 THEN {[bytes |-> <<>>, slots |-> 0]}
    ELSE PoolBodies(n - 1) \cup
         {[bytes |-> body.bytes \o e,
           slots |-> body.slots + (IF e[1] \in {5, 6} THEN 2 ELSE 1)] :
            body \in PoolBodies(n - 1), e \in EncodedEntries}

\* The count in front of the pool: the slots and one, as the format has
\* it, or the slots alone.
Pools ==
    {<<0, body.slots + extra>> \o body.bytes :
        body \in PoolBodies(MaxClassEntries), extra \in {0, 1}}

\* What follows the pool: nothing; flags 0x0021, this 1, super 0, no
\* interface, field or method; an abstract interface (0x0601) with one
\* interface; one field without attributes; one field with an attribute
\* named by entry 1.
Tails ==
    {<<>>,
     <<0, 33, 0, 1, 0, 0, 0, 0, 0, 0, 0, 0>>,
     <<6, 1, 0, 1, 0, 0, 0, 1, 0, 1, 0, 0, 0, 0>>,
     <<0, 33, 0, 1, 0, 0, 0, 0, 0, 1, 0, 2, 0, 1, 0, 1, 0, 0, 0, 0>>,
     <<0, 33, 0, 1, 0, 0, 0, 0, 0, 1, 0, 2, 0, 1, 0, 1, 0, 1,
       0, 1, 0, 0, 0, 0, 0, 0>>}

\* Magic, minor 3 and major: the majors on both sides of both ends of the
\* accepted range, and 0x0134.
Headers ==
    {magic \o <<0, 3>> \o major :
        magic \in {<<202, 254, 186, 190>>, <<202, 254, 186, 191>>},
        major \in {<<0, 44>>, <<0, 45>>, <<0, 68>>, <<0, 69>>, <<1, 52>>}}

Buffers ==
    {header \o pool \o tail :
        header \in Headers, pool \in Pools, tail \in Tails}
        \cup {<<202, 254>>, <<202, 254, 186, 190, 0, 3>>}

InitDecode ==
    /\ frames = <<>>
    /\ last = <<>>
    /\ EmptyHeap
    /\ SingleThread
    /\ entries = <<>>
    /\ classfile = None
    /\ \E buff \in Buffers, pos \in {0, 8} :
          /\ pos <= Len(buff)
          /\ reader = [buff |-> buff, pos |-> pos]
    /\ call = PoolCall("open", -1, NoEntry, <<>>)
    /\ result = NoResult
    /\ build \in ReaderBuilds

\* Classfile::new(buff, arena).  The reader is the function's own: what is
\* kept of it is where it stood when the function returned.
DecodeClassfile ==
    /\ call.fn = "open"
    /\ reader.pos = 0
    /\ LET x == Classfile_new(reader.buff)
       IN  /\ reader' = x.rd
           /\ entries' = x.pool
           /\ classfile' = x.class
           /\ result' = [r |-> x.r, v |-> x.v]
    /\ call' = PoolCall("Classfile::new", -1, NoEntry, <<>>)
    /\ UNCHANGED <<frameVars, heapVars, areaVars, build>>

\* ConstantPool::new(reader, arena) on a reader past the header.
DecodePool ==
    /\ call.fn = "open"
    /\ reader.pos # 0
    /\ LET x == ConstantPool_new(reader)
       IN  /\ reader' = x.rd
           /\ entries' = x.pool
           /\ result' = [r |-> x.r, v |-> x.v]
    /\ call' = PoolCall("ConstantPool::new", -1, NoEntry, <<>>)
    /\ UNCHANGED <<frameVars, heapVars, areaVars, classfile, build>>

NextDecode ==
    \/ DecodeClassfile
    \/ DecodePool
    \/ \E index \in PoolIndexes : PoolGet(index)

SpecDecode == InitDecode /\ [][NextDecode]_vars

-----------------------------------------------------------------------------
(* Claims about the constant pool and the decoder.                         *)

SlotWidth(entry) == IF entry.tag \in {"Long", "Double"} THEN 2 ELSE 1

\* The slots the first k of the pushed entries take.
RECURSIVE SlotsOf(_, _)
SlotsOf(pushed, k) ==
    IF k = 0 THEN 0 ELSE SlotsOf(pushed, k - 1) + SlotWidth(pushed[k])

\* The 1-based index of the k-th pushed entry.
IndexOf(pushed, k) == 1 + SlotsOf(pushed, k - 1)

\* The indexes of the slots reserved after a Long or Double.
ReservedIndexes(pushed) ==
    {IndexOf(pushed, k) + 1 :
        k \in {j \in 1..Len(pushed) : SlotWidth(pushed[j]) = 2}}

\* C7: on a pool of len slots, get(0) is InvalidIndex(0), get(i) with
\* i > len is InvalidIndex(i), get(i) on the slot reserved after a Long or
\* Double is UnusableSlot(i), and every other get(i) returns the entry that
\* was pushed to the 1-based position i.
C7_GetByIndex ==
    call.fn = "get" =>
        LET i == call.index
            pushed == call.pushed
            len == SlotsOf(pushed, Len(pushed))
        IN  /\ i = 0 => result.r = "InvalidIndex" /\ result.v = <<0>>
            /\ i > len => result.r = "InvalidIndex" /\ result.v = <<i>>
            /\ i \in ReservedIndexes(pushed) =>
                  result.r = "UnusableSlot" /\ result.v = <<i>>
            /\ \A k \in 1..Len(pushed) :
                  IndexOf(pushed, k) = i =>
                      result.r = "Ok" /\ result.v = <<pushed[k]>>

\* As in the unit test: after a Utf8, an Integer and a Long, get(4) is the
\* reserved slot.
C7_Witness ==
    /\ call.fn = "get"
    /\ call.index = 4
    /\ Len(call.pushed) = 3
    /\ call.pushed[3].tag = "Long"
    /\ result.r = "UnusableSlot"
    /\ result.v = <<4>>

\* C8: after any pushes, the k-th pushed entry is at 1 plus the slot widths
\* of the entries before it, a Long or Double is followed by a reserved
\* slot, and no other slot is reserved.
C8_PoolSlots ==
    call.fn \in {"default", "push", "get"} =>
        LET pushed == call.pushed
        IN  /\ Len(entries) = SlotsOf(pushed, Len(pushed))
            /\ \A k \in 1..Len(pushed) :
                  /\ entries[IndexOf(pushed, k)] = Some(pushed[k])
                  /\ SlotWidth(pushed[k]) = 2 =>
                        entries[IndexOf(pushed, k) + 1] = None
            /\ \A i \in 1..Len(entries) :
                  entries[i] = None <=> i \in ReservedIndexes(pushed)

\* A Long was pushed first and another entry after it, which is at 3.
C8_Witness ==
    /\ call.fn = "push"
    /\ Len(call.pushed) >= 2
    /\ call.pushed[1].tag = "Long"
    /\ entries[2] = None
    /\ entries[3] = Some(call.entry)

\* The count the buffer declares for its pool.
DeclaredCount == reader.buff[9] * 256 + reader.buff[10]

\* Where the reader stands after `slots` slots of entries have been read
\* from `rd` on, or -1 when the bytes are not that many whole entries.
RECURSIVE AfterSlots(_, _)
AfterSlots(rd, slots) ==
    IF slots = 0 THEN rd.pos
    ELSE IF slots < 0 THEN -1
    ELSE LET tag == read("u8", rd)
             entry == read_entry(tag.v[1], tag.rd)
         IN  IF tag.r # "Ok" THEN -1
             ELSE IF entry.r # "Ok" THEN -1
             ELSE AfterSlots(entry.rd, slots - SlotWidth(entry.v[1]))

\* The end of a pool of DeclaredCount - 1 slots (with the access flags
\* after it), or -1.
PoolEnd ==
    IF Len(reader.buff) < 10 \/ DeclaredCount < 1 THEN -1
    ELSE LET end == AfterSlots([reader EXCEPT !.pos = 10], DeclaredCount - 1)
         IN  IF end >= 0 /\ end + 2 <= Len(reader.buff) THEN end ELSE -1

\* C9: ConstantPool::new on a reader at a pool that declares the count n
\* and holds n - 1 slots of entries succeeds with those n - 1 slots, so
\* that n - 1 is the last index get accepts, and leaves the reader on the
\* first byte after the pool.
C9_PoolReadsCountMinusOneSlots ==
    (call.fn = "ConstantPool::new" /\ PoolEnd >= 0) =>
        /\ result.r = "Ok"
        /\ Len(entries) = DeclaredCount - 1
        /\ reader.pos = PoolEnd

\* The first four bytes are 0xCAFEBABE.
MagicMatches ==
    /\ Len(reader.buff) >= 4
    /\ SubSeq(reader.buff, 1, 4) = <<202, 254, 186, 190>>

MajorOf(buff) == buff[7] * 256 + buff[8]

\* C10: Classfile::new returns InvalidClassfile when the first four bytes
\* are not the magic, without reading further; with the magic it returns
\* Version(major) for a major outside 45..=68 and neither of the two
\* errors for a major inside; on either error the reader has not gone
\* past the version.
C10_MagicThenVersion ==
    call.fn = "Classfile::new" =>
        /\ (Len(reader.buff) >= 4 /\ ~MagicMatches) =>
              /\ result.r = "InvalidClassfile"
              /\ reader.pos = 4
        /\ (Len(reader.buff) >= 8 /\ MagicMatches) =>
              LET major == MajorOf(reader.buff)
              IN  /\ major \notin 45..68 =>
                        /\ result.r = "Version"
                        /\ result.v = <<major>>
                        /\ reader.pos = 8
                  /\ major \in 45..68 =>
                        result.r \notin {"InvalidClassfile", "Version"}
        /\ result.r \in {"InvalidClassfile", "Version"} =>
              entries = <<>> /\ reader.pos <= 8

\* A class file of major version 69 was refused with the reader at the
\* pool.
C10_Witness ==
    /\ call.fn = "Classfile::new"
    /\ MagicMatches
    /\ result.r = "Version"
    /\ result.v = <<69>>
    /\ reader.pos = 8

-----------------------------------------------------------------------------
(* Attributes: get_attributes on a reader that stands at an attribute list, *)
(* with a pool whose names were pushed.                                     *)

MaxAttributes == 2

\* The pool of the attribute lists: 1 Deprecated, 2 SourceFile,
\* 3 BootstrapMethods (a name Attribute::new has no arm for), 4 Synthetic,
\* 5 ConstantValue, 6 an Integer, 7-8 a Long.
AttributePoolEntries ==
    <<Entry("Utf8", Utf8("Deprecated")), Entry("Utf8", Utf8("SourceFile")),
      Entry("Utf8", Utf8("BootstrapMethods")),
      Entry("Utf8", Utf8("Synthetic")), Entry("Utf8", Utf8("ConstantValue")),
      Entry("Integer", <<1>>), Entry("Long", <<2, 0, 0, 0>>)>>

\* The pool after these pushes.
RECURSIVE PoolOf(_, _)
PoolOf(pool, pushed) ==
    IF pushed = <<>> THEN pool
    ELSE PoolOf(ConstantPool_push(pool, Head(pushed)), Tail(pushed))

\* attribute_info structures: name index, length, info.
EncodedAttributes ==
    {<<0, 1, 0, 0, 0, 0>>,
     <<0, 4, 0, 0, 0, 0>>,
     <<0, 2, 0, 0, 0, 2, 0, 9>>,
     <<0, 5, 0, 0, 0, 2, 0, 6>>,
     <<0, 3, 0, 0, 0, 0>>,
     <<0, 3, 0, 0, 0, 2, 0, 0>>,
     <<0, 6, 0, 0, 0, 0>>,
     <<0, 8, 0, 0, 0, 0>>,
     <<0, 0, 0, 0, 0, 0>>,
     <<0, 2, 0, 0, 0, 2, 0>>}

RECURSIVE AttributeLists(_)
AttributeLists(n) ==
    IF n = 0 THEN {[bytes |-> <<>>, count |-> 0]}
    ELSE AttributeLists(n - 1) \cup
         {[bytes |-> list.bytes \o a, count |-> list.count + 1] :
            list \in AttributeLists(n - 1), a \in EncodedAttributes}

\* The count in front of the list and, after it, nothing or two bytes of
\* what follows.
AttributeBuffers ==
    {<<0, list.count>> \o list.bytes \o rest :
        list \in AttributeLists(MaxAttributes), rest \in {<<>>, <<0, 33>>}}
        \cup {<<>>, <<0>>}

InitAttributes ==
    /\ frames = <<>>
    /\ last = <<>>
    /\ EmptyHeap
    /\ SingleThread
    /\ entries = PoolOf(<<>>, AttributePoolEntries)
    /\ classfile = None
    /\ \E buff \in AttributeBuffers : reader = [buff |-> buff, pos |-> 0]
    /\ call = PoolCall("open", -1, NoEntry, AttributePoolEntries)
    /\ result = NoResult
    /\ build \in ReaderBuilds

\* get_attributes(reader, constant_pool, arena)
GetAttributes ==
    /\ call.fn = "open"
    /\ LET x == get_attributes(reader, entries)
       IN  /\ reader' = x.rd
           /\ result' = [r |-> x.r, v |-> x.v]
    /\ call' = [call EXCEPT !.fn = "get_attributes"]
    /\ UNCHANGED <<frameVars, heapVars, areaVars, entries, classfile,
                   build>>

NextAttributes == GetAttributes

SpecAttributes == InitAttributes /\ [][NextAttributes]_vars

-----------------------------------------------------------------------------
(* Claims about attributes.                                                *)

U16At(buff, pos) == buff[pos + 1] * 256 + buff[pos + 2]

\* The length of the attribute_info at pos (below 2^16 in every list here).
LengthAt(buff, pos) == U16At(buff, pos + 4)

\* The name of the attribute_info at pos, or <<>> when its name index is
\* not that of a Utf8 entry.
NameAt(buff, pos) ==
    LET index == U16At(buff, pos)
    IN  IF index \in 1..Len(entries) /\ entries[index] # None
        THEN IF entries[index][1].tag = "Utf8"
             THEN entries[index][1].value ELSE <<>>
        ELSE <<>>

IsRecognized(name) == name \in {Utf8(n) : n \in AttributeNames}

\* Walking n attribute_info structures from pos on by their lengths: where
\* the walk ends and how many recognized attributes it met, or pos -1 when
\* the bytes are not n named attributes.
RECURSIVE WalkAttributes(_, _, _, _)
WalkAttributes(buff, pos, n, met) ==
    IF n = 0 THEN [pos |-> pos, met |-> met]
    ELSE IF pos + 6 > Len(buff) THEN [pos |-> -1, met |-> met]
    ELSE IF NameAt(buff, pos) = <<>> THEN [pos |-> -1, met |-> met]
    ELSE IF pos + 6 + LengthAt(buff, pos) > Len(buff)
    THEN [pos |-> -1, met |-> met]
    ELSE WalkAttributes(
             buff, pos + 6 + LengthAt(buff, pos), n - 1,
             IF IsRecognized(NameAt(buff, pos))
             THEN Append(met, NameAt(buff, pos)) ELSE met)

WalkedList ==
    IF Len(reader.buff) < 2 THEN [pos |-> -1, met |-> <<>>]
    ELSE WalkAttributes(reader.buff, 2, U16At(reader.buff, 0), <<>>)

\* C11: get_attributes on a list of named attributes, some of them with a
\* name that is not recognized, succeeds; it leaves the reader where the
\* lengths of the attributes lead, and returns the recognized attributes
\* alone, in their order.
C11_UnknownAttributeIsSkipped ==
    (call.fn = "get_attributes" /\ WalkedList.pos >= 0) =>
        /\ result.r = "Ok"
        /\ reader.pos = WalkedList.pos
        /\ Len(result.v[1]) = Len(WalkedList.met)
        /\ \A k \in 1..Len(WalkedList.met) :
              result.v[1][k].name = WalkedList.met[k]

-----------------------------------------------------------------------------
(* The heap under several threads.  Every allocate_* takes &mut Heap, which *)
(* a thread has inside with_mut_heap alone, under HEAP.write().             *)

NumThreads == 2
MaxAllocations == 3

Threads == 1..NumThreads

Idle == [pc |-> "idle", fn |-> "", arg |-> <<>>]

\* HEAP_ID at the start: that of a new process, and those of a process two
\* allocations before the counter passes i32::MAX and before it reaches 0
\* (the objects allocated until then are left out of `objects`).
HeapStarts == {1, MAX32 - 1, -2}

\* An object with no field.
Instance_new(name) == [kind |-> "Object", name |-> name, value |-> <<>>]

InitHeap ==
    /\ frames = <<>>
    /\ last = <<>>
    /\ objects = <<>>
    /\ \E start \in HeapStarts :
          /\ HEAP_ID = start
          /\ call = [fn |-> "start", start |-> start, log |-> <<>>]
    /\ METHOD_AREA = <<>>
    /\ threads = [t \in Threads |-> Idle]
    /\ NoClassfile
    /\ result = NoResult
    /\ build \in Builds

\* HEAP.write() is held by the thread that is inside with_mut_heap.
HeapIsLocked == \E t \in Threads : threads[t].pc = "with_mut_heap"

\* with_mut_heap(|heap| heap.fn(arg)): the thread gets the write lock.
with_mut_heap(t, fn, arg) ==
    /\ threads[t].pc = "idle"
    /\ ~HeapIsLocked
    /\ Len(call.log) < MaxAllocations
    /\ threads' = [threads EXCEPT ![t] =
                      [pc |-> "with_mut_heap", fn |-> fn, arg |-> arg]]
    /\ UNCHANGED <<frameVars, heapVars, METHOD_AREA, classVars, call,
                   result, build>>

\* The callback: the allocation, whose handle the thread gets, and the
\* guard dropped (on a panic as well).
Allocate(t) ==
    /\ threads[t].pc = "with_mut_heap"
    /\ LET heap == [objects |-> objects, HEAP_ID |-> HEAP_ID]
           fn == threads[t].fn
           arg == threads[t].arg
           x == CASE fn = "allocate_array" ->
                       allocate_array(heap, arg[1], arg[2])
                  [] fn = "allocate_array_with_values" ->
                       allocate_array_with_values(heap, arg[1], arg[2])
                  [] fn = "allocate_instance" ->
                       allocate_instance(heap, arg[1])
       IN  /\ objects' = x.heap.objects
           /\ HEAP_ID' = x.heap.HEAP_ID
           /\ result' = [r |-> x.r, v |-> x.v]
           /\ call' = [call EXCEPT
                          !.fn = fn,
                          !.log = IF x.r = "Ok"
                                  THEN Append(@, [t |-> t, fn |-> fn,
                                                  arg |-> arg,
                                                  id |-> x.v[1]])
                                  ELSE @]
    /\ threads' = [threads EXCEPT ![t] = Idle]
    /\ UNCHANGED <<frameVars, METHOD_AREA, classVars, build>>

NextHeap ==
    \/ \E t \in Threads, name \in {"[B", "[J"}, length \in {1, -1} :
          with_mut_heap(t, "allocate_array", <<name, length>>)
    \/ \E t \in Threads :
          with_mut_heap(t, "allocate_array_with_values", <<"[S", <<1, 2>>>>)
    \/ \E t \in Threads :
          with_mut_heap(t, "allocate_instance", <<Instance_new("A")>>)
    \/ \E t \in Threads : Allocate(t)

SpecHeap == InitHeap /\ [][NextHeap]_vars

-----------------------------------------------------------------------------
(* Claims about the heap.                                                  *)

\* The object a call was made to allocate.
AllocatedFor(fn, arg) ==
    CASE fn = "allocate_array" ->
            [kind |-> "Array", name |-> arg[1],
             value |-> [i \in 1..(arg[2] * (IF arg[1] = "[J" THEN 8 ELSE 1))
                           |-> 0]]
      [] fn = "allocate_array_with_values" ->
            [kind |-> "Array", name |-> arg[1], value |-> arg[2]]
      [] fn = "allocate_instance" -> arg[1]

\* C12: of the allocations made so far, from whichever threads, none
\* returned 0, each returned a handle above the one before it (so that no
\* two are the same), the first of a process returned 1, and every handle
\* maps to the object it was allocated for.
C12_HandlesAreUniqueAndIncreasing ==
    call.fn # "start" =>
        \A k \in 1..Len(call.log) :
            /\ call.log[k].id # 0
            /\ k > 1 => call.log[k].id > call.log[k - 1].id
            /\ (call.start = 1 /\ k = 1) => call.log[k].id = 1
            /\ call.log[k].id \in DOMAIN objects
            /\ objects[call.log[k].id] =
                  AllocatedFor(call.log[k].fn, call.log[k].arg)

-----------------------------------------------------------------------------
(* The method area: METHOD_AREA is a OnceCell<MethodArea>, the classes of  *)
(* an area a DashMap from the class name to an Arc<Class>.  An Arc is told *)
(* from another by `arc`: the thread that made it and its count of them.   *)

PRIMITIVE_TYPE == {"B", "C", "D", "F", "I", "J", "S", "Z", "V"}

\* The class names of the calls: an array class, a primitive type, and a
\* class that would have to be loaded from a file.
ClassNames == {"[I", "I", "A"}

\* classname.starts_with('['), on the names above.
starts_with_bracket(classname) == classname \in {"[I"}

Class_with_classname(classname, arc) ==
    [name |-> classname, methods |-> <<>>, parent |-> None, arc |-> arc]

generate_classes(arc) ==
    [class_name \in PRIMITIVE_TYPE |-> Class_with_classname(class_name, arc)]

generate_array_class(classname, arc) == Class_with_classname(classname, arc)

\* MethodArea::new never fails.
MethodArea_new(arc) == [classes |-> generate_classes(arc), reflection |-> <<>>]

\* A set that replaces a value already there.
OnceCell_set_replacing(cell, value) == [cell |-> Some(value), r |-> "Ok"]

\* OnceCell::set: Err(value) when the cell is full.
OnceCell_set(cell, value) ==
    IF cell = None THEN [cell |-> Some(value), r |-> "Ok"]
    ELSE [cell |-> cell, r |-> "Err"]

DashMap_insert(map, key, value) ==
    [k \in (DOMAIN map) \cup {key} |-> IF k = key THEN value ELSE map[k]]

MaxAreaCalls == 4

NoClass == Class_with_classname("", <<>>)

\* A thread between two calls, having made `made` Arcs.
Between(made) ==
    [pc |-> "idle", fn |-> "", arg |-> "", made |-> made,
     local |-> NoClass, raced |-> FALSE]

\* call: the last call that returned with the area it found and the one
\* it made, the calls begun, the successful
\* initialise calls, and per class name the Arcs that get has returned.
InitArea ==
    /\ frames = <<>>
    /\ last = <<>>
    /\ EmptyHeap
    /\ METHOD_AREA = None
    /\ threads = [t \in Threads |-> Between(0)]
    /\ NoClassfile
    /\ call = [fn |-> "start", t |-> 0, name |-> "", before |-> None,
               value |-> None, raced |-> FALSE, begun |-> 0, published |-> 0,
               got |-> [n \in ClassNames |-> {}]]
    /\ result = NoResult
    /\ build \in Builds

Begin(t) ==
    /\ threads[t].pc = "idle"
    /\ call.begun < MaxAreaCalls

\* MethodArea::initialise, the argument of set: MethodArea::new(path)?.
Initialise_new(t) ==
    /\ Begin(t)
    /\ threads' = [threads EXCEPT ![t] =
                      [pc |-> "set", fn |-> "initialise", arg |-> "",
                       made |-> @.made + 1,
                       local |-> NoClass,
                       raced |-> METHOD_AREA = None]]
    /\ call' = [call EXCEPT !.begun = @ + 1]
    /\ UNCHANGED <<frameVars, heapVars, METHOD_AREA, classVars, result,
                   build>>

\* METHOD_AREA.set(..).map_err(|_| MethodAreaInitialised)
Initialise_set(t) ==
    /\ threads[t].pc = "set"
    /\ LET x == OnceCell_set(METHOD_AREA,
                             MethodArea_new(<<t, threads[t].made>>))
       IN  /\ METHOD_AREA' = x.cell
           /\ result' = [r |-> IF x.r = "Ok" THEN "Ok"
                               ELSE "MethodAreaInitialised",
                         v |-> <<>>]
           /\ call' = [call EXCEPT
                          !.fn = "initialise", !.t = t, !.name = "",
                          !.before = METHOD_AREA,
                          !.raced = threads[t].raced,
                          !.value = Some(MethodArea_new(
                                            <<t, threads[t].made>>)),
                          !.published = IF x.r = "Ok" THEN @ + 1 ELSE @]
    /\ threads' = [threads EXCEPT ![t] = Between(@.made)]
    /\ UNCHANGED <<frameVars, heapVars, classVars, build>>

Returned_get(t, classname, r, class) ==
    /\ result' = [r |-> r, v |-> IF r = "Ok" THEN <<class.arc>> ELSE <<>>]
    /\ call' = [call EXCEPT
                   !.fn = "get", !.t = t, !.name = classname,
                   !.before = METHOD_AREA, !.value = None,
                   !.raced = FALSE,
                   !.begun = IF threads[t].pc = "idle" THEN @ + 1 ELSE @,
                   !.got = IF r = "Ok"
                           THEN [@ EXCEPT ![classname] = @ \cup {class.arc}]
                           ELSE @]

\* with_method_area(|area| area.get(classname)) up to the class it found
\* or the one it generated: METHOD_AREA.get().expect(..), classes.get(..),
\* generate_array_class(..), todo!().
MethodArea_get(t, classname) ==
    /\ Begin(t)
    /\ IF METHOD_AREA = None
       THEN /\ Returned_get(t, classname, "panic_expect", NoClass)
            /\ UNCHANGED threads
       ELSE IF classname \in DOMAIN METHOD_AREA[1].classes
       THEN /\ Returned_get(t, classname, "Ok",
                            METHOD_AREA[1].classes[classname])
            /\ UNCHANGED threads
       ELSE IF starts_with_bracket(classname)
       THEN /\ threads' = [threads EXCEPT ![t] =
                   [pc |-> "insert", fn |-> "get", arg |-> classname,
                    made |-> @.made + 1,
                    local |-> generate_array_class(classname,
                                                   <<t, @.made + 1>>),
                    raced |-> FALSE]]
            /\ call' = [call EXCEPT !.begun = @ + 1]
            /\ UNCHANGED result
       ELSE /\ Returned_get(t, classname, "panic_todo", NoClass)
            /\ UNCHANGED threads
    /\ UNCHANGED <<frameVars, heapVars, METHOD_AREA, classVars, build>>

\* self.classes.insert(classname.to_string(), Arc::clone(&class)) and
\* return Ok(class).
MethodArea_get_insert(t) ==
    /\ threads[t].pc = "insert"
    /\ METHOD_AREA' =
          Some([METHOD_AREA[1] EXCEPT
                   !.classes = DashMap_insert(@, threads[t].arg,
                                              threads[t].local)])
    /\ Returned_get(t, threads[t].arg, "Ok", threads[t].local)
    /\ threads' = [threads EXCEPT ![t] = Between(@.made)]
    /\ UNCHANGED <<frameVars, heapVars, classVars, build>>

NextArea ==
    \/ \E t \in Threads : Initialise_new(t)
    \/ \E t \in Threads : Initialise_set(t)
    \/ \E t \in Threads, classname \in ClassNames :
          MethodArea_get(t, classname)
    \/ \E t \in Threads : MethodArea_get_insert(t)

SpecArea == InitArea /\ [][NextArea]_vars

-----------------------------------------------------------------------------
(* Claims about the method area                                            *)

\* C13: MethodArea::initialise publishes the global method area at most
\* once: a call that finds no area published returns Ok and publishes its
\* own, and every call that finds one, a concurrent call that lost the race
\* included, returns MethodAreaInitialised and leaves the published area,
\* with its class map, as it was.
C13_InitialiseAtMostOnce ==
    /\ call.published <= 1
    /\ (call.fn = "initialise" /\ call.before = None) =>
          /\ result.r = "Ok"
          /\ call.published = 1
          /\ METHOD_AREA = call.value
    /\ (call.fn = "initialise" /\ call.before # None) =>
          /\ result.r = "MethodAreaInitialised"
          /\ METHOD_AREA = call.before

\* A thread that began initialise with no area published lost the race to
\* another thread, whose area has since been given an array class.
C13_Witness ==
    /\ call.fn = "initialise"
    /\ call.raced
    /\ result.r = "MethodAreaInitialised"
    /\ call.published = 1
    /\ "[I" \in DOMAIN METHOD_AREA[1].classes
    /\ METHOD_AREA[1].classes["I"].arc[1] # call.t

\* C14: two threads that call MethodArea::get at the same time for the same
\* absent array class are both given the same class object, the one of the
\* first writer, and so is every later get of that name.
C14_OneClassPerName ==
    \A classname \in ClassNames : Cardinality(call.got[classname]) <= 1

-----------------------------------------------------------------------------
(* Claims about the arithmetic, the conversions and the comparisons        *)

\* The operands a binary opcode pops from the frame it was run on: the
\* first popped of type B, the second of type A.  Both are there.
FirstPopped(B) == pop(B, Before)
SecondPopped(A, B) == pop(A, FirstPopped(B).f)
HasOperands(A, B) ==
    /\ FirstPopped(B).r = "Ok"
    /\ SecondPopped(A, B).r = "Ok"

\* The last call ran the opcode through execute()'s dispatcher.
Ran(opcode) == call.fn = "execute" /\ call.opcode = opcode

DividedByZero ==
    \/ /\ call.fn = "execute"
       /\ call.opcode \in {"IDIV", "IREM"}
       /\ HasOperands("i32", "i32")
       /\ FirstPopped("i32").v[1] = 0
    \/ /\ call.fn = "execute"
       /\ call.opcode \in {"LDIV", "LREM"}
       /\ HasOperands("i64", "i64")
       /\ FirstPopped("i64").v[1] = Zero(4)

\* C15: IDIV, IREM, LDIV and LREM run with a divisor of 0 return the error
\* Arithmetic from the handler: the interpreter does not crash and no
\* result is pushed.
C15_DivisionByZeroIsAnError ==
    DividedByZero =>
        /\ result.r = "Arithmetic"
        /\ Depth(Top) <= Depth(Before)

\* The value of type T on top of the frame after the call.
Pushed(T) == pop(T, Top).v[1]

\* The last call left the frame with a T in place of the operands A and B.
Replaced(T, A, B) ==
    /\ result.r = "Ok"
    /\ pop(T, Top).r = "Ok"
    /\ pop(T, Top).f.operand_stack = SecondPopped(A, B).f.operand_stack

ShiftOf(opcode, a, n) ==
    CASE opcode \in {"ISHL", "LSHL"} -> ShiftLeft(a, n)
      [] opcode \in {"ISHR", "LSHR"} -> ShiftRight(a, n)
      [] opcode \in {"IUSHR", "LUSHR"} -> UnsignedShiftRight(a, n)

\* C16: ISHL, ISHR and IUSHR shift an i32 by the count's low five bits and
\* LSHL, LSHR and LUSHR an i64 by its low six bits, whatever the count; the
\* unsigned shifts fill with zeros.
C16_ShiftCountIsMasked ==
    /\ \A opcode \in {"ISHL", "ISHR", "IUSHR"} :
          (Ran(opcode) /\ HasOperands("i32", "i32")) =>
              /\ Replaced("i32", "i32", "i32")
              /\ Pushed("i32") =
                    FromLimbs(ShiftOf(opcode,
                                      ToLimbs(SecondPopped("i32", "i32").v[1]),
                                      FirstPopped("i32").v[1] % 32))
    /\ \A opcode \in {"LSHL", "LSHR", "LUSHR"} :
          (Ran(opcode) /\ HasOperands("i64", "i32")) =>
              /\ Replaced("i64", "i64", "i32")
              /\ Pushed("i64") =
                    ShiftOf(opcode, SecondPopped("i64", "i32").v[1],
                            FirstPopped("i32").v[1] % 64)

\* The operand a conversion pops from the frame it was run on.
Popped(F) == pop(F, Before)

\* The last call left the frame with a T in place of the operand F.
Converted(F, T) ==
    /\ result.r = "Ok"
    /\ pop(T, Top).r = "Ok"
    /\ pop(T, Top).f.operand_stack = Popped(F).f.operand_stack

\* The conversions in the order of their bytes, which follow IINC's: the
\* enum Opcode has no variant for them.
ConversionsFromI2l ==
    <<"I2L", "I2F", "I2D", "L2I", "L2F", "L2D", "F2I", "F2L", "F2D",
      "D2I", "D2L", "D2F", "I2B", "I2C", "I2S">>

\* execute() has run the byte of the conversion.
Executed(conversion) ==
    /\ call.fn = "execute"
    /\ call.code > as_u8("IINC")
    /\ call.code <= as_u8("IINC") + Len(ConversionsFromI2l)
    /\ ConversionsFromI2l[call.code - as_u8("IINC")] = conversion

\* The low `bits` bits of v as a signed number.
SignExtended(v, bits) ==
    IF v % 2^bits >= 2^(bits - 1) THEN (v % 2^bits) - 2^bits ELSE v % 2^bits

\* C18: executed on an i32 v with a free slot above it, I2L leaves the i64
\* of the same value (so that L2I after it leaves v and the stack as it
\* was); L2I leaves the low 32 bits of an i64; I2B and I2S leave the low 8
\* and 16 bits of v sign-extended, I2C the low 16 bits zero-extended.
C18_IntegerConversions ==
    /\ (Executed("I2L") /\ Popped("i32").r = "Ok" /\ FreeSlots(Before) >= 1) =>
          /\ Converted("i32", "i64")
          /\ Pushed("i64") =
                <<Popped("i32").v[1] % Limb,
                  (Popped("i32").v[1] \div Limb) % Limb,
                  IF Popped("i32").v[1] < 0 THEN Limb - 1 ELSE 0,
                  IF Popped("i32").v[1] < 0 THEN Limb - 1 ELSE 0>>
          /\ i64_as_i32(Pushed("i64")) = Popped("i32").v[1]
    /\ (Executed("L2I") /\ Popped("i64").r = "Ok") =>
          /\ Converted("i64", "i32")
          /\ Pushed("i32") = Before.operand_stack.inner[Depth(Before) - 1]
    /\ (Executed("I2B") /\ Popped("i32").r = "Ok") =>
          /\ Converted("i32", "i32")
          /\ Pushed("i32") = SignExtended(Popped("i32").v[1], 8)
    /\ (Executed("I2S") /\ Popped("i32").r = "Ok") =>
          /\ Converted("i32", "i32")
          /\ Pushed("i32") = SignExtended(Popped("i32").v[1], 16)
    /\ (Executed("I2C") /\ Popped("i32").r = "Ok") =>
          /\ Converted("i32", "i32")
          /\ Pushed("i32") = Popped("i32").v[1] % Limb

\* -1, 0 or 1 as the second popped is less than, equal to or greater than
\* the first popped, and nan_ord when one of them is a NaN.
SignOfComparison(V, nan_ord) ==
    IF is_nan(V, SecondPopped(V, V).v[1]) \/ is_nan(V, FirstPopped(V).v[1])
    THEN nan_ord
    ELSE CASE partial_cmp(V, SecondPopped(V, V).v[1],
                          FirstPopped(V).v[1]) = "Less" -> -1
           [] partial_cmp(V, SecondPopped(V, V).v[1],
                          FirstPopped(V).v[1]) = "Equal" -> 0
           [] OTHER -> 1

ComparedAs(opcode, V, nan_ord) ==
    (Ran(opcode) /\ HasOperands(V, V)) =>
        /\ Replaced("i32", V, V)
        /\ Pushed("i32") = SignOfComparison(V, nan_ord)

\* C19: LCMP replaces two i64 by -1, 0 or 1 as the second popped is less
\* than, equal to or greater than the first popped; FCMPL and FCMPG do so
\* for two f32 and DCMPL and DCMPG for two f64, pushing -1 (the L opcodes)
\* or 1 (the G opcodes) when an operand is a NaN.
C19_ComparisonsPushTheSign ==
    /\ ComparedAs("LCMP", "i64", 0)
    /\ ComparedAs("FCMPL", "f32", -1)
    /\ ComparedAs("FCMPG", "f32", 1)
    /\ ComparedAs("DCMPL", "f64", -1)
    /\ ComparedAs("DCMPG", "f64", 1)

\* C20: execute() on a frame whose bytecode is empty ends without a crash:
\* no byte is read past the end of the bytecode and pc stays 0.
C20_EmptyBytecodeTerminates ==
    (/\ call.fn = "execute"
     /\ call.before # <<>>
     /\ Before.bytecode = <<>>
     /\ Before.pc = 0) =>
        /\ ~IsPanic(result.r)
        /\ frames # <<>> => Top.pc = 0

-----------------------------------------------------------------------------
(* IINC run twice by execute(), on a frame whose caller has set its locals *)
(* and may have pushed a value.                                            *)

\* The locals before the run: both ends of i32 and what is next to them.
Extremes == {MIN32, MIN32 + 1, -1, 0, 1, MAX32 - 1, MAX32}

\* The constant's byte: 0, 1, 127, -128, -1.
ConstantBytes == {0, 1, 127, 128, 255}

\* IINC index c1, IINC index c2, for the locals and one index past them.
IincPrograms ==
    {<<as_u8("IINC"), index, c1, as_u8("IINC"), index, c2>> :
        index \in 0..MaxLocals, c1 \in ConstantBytes, c2 \in ConstantBytes}

InitIinc ==
    /\ \E program \in IincPrograms,
          variables \in [1..MaxLocals -> Extremes],
          inner \in {<<>>, <<1>>} :
         frames = <<[StackFrame_new(MaxLocals, 1, program, "Main") EXCEPT
                        !.variables = variables,
                        !.operand_stack.inner = inner]>>
    /\ last = <<>>
    /\ objects = HeapAtStart.objects
    /\ HEAP_ID = HeapAtStart.HEAP_ID
    /\ SingleThread
    /\ NoClassfile
    /\ call = [fn |-> "new", code |-> -1, opcode |-> "", before |-> <<>>]
    /\ result = NoResult
    /\ build \in Builds

NextIinc == execute

SpecIinc == InitIinc /\ [][NextIinc]_vars

\* x + c in 32 bits, for a c of a few hundred at most.
WrappedSum(x, c) ==
    IF c >= 0
    THEN IF x <= MAX32 - c THEN x + c ELSE MIN32 + ((c - (MAX32 - x)) - 1)
    ELSE IF x >= MIN32 - c THEN x + c ELSE MAX32 - (((MIN32 - c) - x) - 1)

\* The index and the constant of the IINC at f's pc, there in full.
IincIndex(f) == f.bytecode[f.pc + 2]
IincConstant(f) == u8_as_i8(f.bytecode[f.pc + 3])
IincAt(f) ==
    /\ f.pc + 2 < Len(f.bytecode)
    /\ f.bytecode[f.pc + 1] = as_u8("IINC")
    /\ IincIndex(f) < Len(f.variables)

\* What execute() makes of the frame in two iterations.
TwiceExecuted ==
    process(as_u8("IINC"),
            process(as_u8("IINC"), frames, [sign |-> 0, payload |-> "preferred"]).fs,
            [sign |-> 0, payload |-> "preferred"])

\* C17: IINC adds the signed byte at pc + 2 to the local whose index is the
\* byte at pc + 1, wrapping in 32 bits, changes neither the operand stack
\* nor another local, and moves pc by 3; IINC(i, c1) and then IINC(i, c2)
\* leave in local i its old value plus c1 + c2, wrapped.
C17_IincAddsWrapping ==
    /\ (Ran("IINC") /\ IincAt(Before)) =>
          /\ result.r = "Ok"
          /\ Top.pc = Before.pc + 3
          /\ Top.operand_stack = Before.operand_stack
          /\ Top.variables =
                [Before.variables EXCEPT
                    ![IincIndex(Before) + 1] =
                        WrappedSum(@, IincConstant(Before))]
    /\ (call.fn = "new" /\ IincAt(Top)) =>
          /\ TwiceExecuted.r = "Ok"
          /\ TwiceExecuted.fs[1].variables =
                [Top.variables EXCEPT
                    ![IincIndex(Top) + 1] =
                        WrappedSum(@, u8_as_i8(Top.bytecode[3])
                                          + u8_as_i8(Top.bytecode[6]))]

\* Both IINCs have run and the local has gone past i32::MAX.
C17_Witness ==
    /\ Ran("IINC")
    /\ Top.pc = 6
    /\ result.r = "Ok"
    /\ Top.bytecode[3] = 127
    /\ Top.bytecode[6] = 127
    /\ Top.variables[IincIndex(Before) + 1] = MIN32 + 253
    /\ Top.operand_stack.inner = <<1>>

-----------------------------------------------------------------------------
(* Heap: reading an array element and a field of an instance.  The fields  *)
(* of an Instance are an IndexMap from the classes of its hierarchy, root  *)
(* first, to an IndexMap from field name to value: here a sequence of      *)
(* [name, fields], fields a function from the field names.                 *)

\* IndexMap::get_index_of, counted from 1; 0 for None.
get_index_of(fields, key) ==
    IF \E k \in 1..Len(fields) : fields[k].name = key
    THEN CHOOSE k \in 1..Len(fields) : fields[k].name = key
    ELSE 0

\* The last of the first `taken` maps that has the field.
find_map_rev(fields, taken, field) ==
    LET having == {k \in 1..taken : field \in DOMAIN fields[k].fields}
    IN  IF having = {} THEN None
        ELSE Some(fields[CHOOSE k \in having : \A j \in having : j <= k]
                      .fields[field])

\* A lookup that takes every class of the instance.
lookup_field_in_all(fields, from, field) ==
    IF get_index_of(fields, from) = 0 THEN None
    ELSE find_map_rev(fields, Len(fields), field)

\* .iter().take(index + 1).rev().find_map(|(_, map)| map.get(field))
lookup_field(fields, from, field) ==
    IF get_index_of(fields, from) = 0 THEN None
    ELSE find_map_rev(fields, get_index_of(fields, from), field)

InvalidObjectAcess(classname, field) ==
    [r |-> "InvalidObjectAcess", v |-> <<classname, field>>]

Instance_get_value(instance, classname, field) ==
    IF lookup_field(instance.value, classname, field) = None
    THEN InvalidObjectAcess(classname, field)
    ELSE [r |-> "Ok", v |-> lookup_field(instance.value, classname, field)[1]]

get_field_value(objs, obj_ref, classname, field) ==
    IF obj_ref = 0 THEN InvalidObjectAcess(classname, field)
    ELSE IF obj_ref \in DOMAIN objs /\ objs[obj_ref].kind = "Object"
    THEN Instance_get_value(objs[obj_ref], classname, field)
    ELSE InvalidObjectAcess(classname, field)

-----------------------------------------------------------------------------
(* The heap read: an array and an instance are allocated, then             *)
(* get_array_value and get_field_value are called, and execute() runs an   *)
(* array load or store on the array's handle and an index.                 *)

\* An array of each element type with its bytes in memory order: the ints
\* 10, 20, 30, 40; elements with the sign bit set; 0x0123456789ABCDEF.
ArraySamples ==
    {<<"[B", <<1, 255, 128>>>>,
     <<"[Z", <<1, 0, 1>>>>,
     <<"[C", <<65, 0, 255, 255, 0, 128>>>>,
     <<"[S", <<1, 0, 255, 255, 0, 128>>>>,
     <<"[I", <<10, 0, 0, 0, 20, 0, 0, 0, 30, 0, 0, 0, 40, 0, 0, 0>>>>,
     <<"[I", <<255, 255, 255, 255, 0, 0, 0, 128, 1, 0, 0, 0>>>>,
     <<"[F", <<0, 0, 128, 63, 0, 0, 192, 255, 1, 0, 0, 0>>>>,
     <<"[Ljava/lang/Object;", <<2, 0, 0, 0, 0, 0, 0, 0, 1, 0, 0, 0>>>>,
     <<"[J", <<239, 205, 171, 137, 103, 69, 35, 1,
               255, 255, 255, 255, 255, 255, 255, 255,
               0, 0, 0, 0, 0, 0, 0, 128>>>>,
     <<"[D", <<0, 0, 0, 0, 0, 0, 240, 63,
               1, 0, 0, 0, 0, 0, 248, 255,
               0, 0, 0, 0, 0, 0, 0, 128>>>>}

\* An Employee: Person redefines nothing, Employee has its own `id`.
EmployeeFields ==
    <<[name |-> "java/lang/Object", fields |-> <<>>],
      [name |-> "Person",
       fields |-> [f \in {"id", "name"} |->
                      IF f = "id" THEN <<1>> ELSE <<5>>]],
      [name |-> "Employee",
       fields |-> [f \in {"id", "salary"} |->
                      IF f = "id" THEN <<2>> ELSE <<7, 8>>]]>>

ClassesAsked == {"java/lang/Object", "Person", "Employee", "Manager"}
FieldsAsked == {"id", "name", "salary", "age"}

ArrayOpcodes ==
    {"IALOAD", "LALOAD", "FALOAD", "DALOAD", "AALOAD", "BALOAD", "CALOAD",
     "SALOAD", "IASTORE", "LASTORE", "FASTORE", "DASTORE", "AASTORE",
     "BASTORE", "CASTORE", "SASTORE"}

\* The operands above the handle: an index, and for a store a value of one
\* or two slots.
MaxIndex == 3

OperandsAbove ==
    {<<index>> : index \in 0..MaxIndex}
       \cup {<<index, value>> : index \in 0..MaxIndex, value \in {7, -1}}
       \cup {<<index, 7, -1>> : index \in 0..MaxIndex}

\* The array gets the handle 1 and the instance the handle 2.
HeapOf(sample) ==
    allocate_instance(
        allocate_array_with_values([objects |-> <<>>, HEAP_ID |-> 1],
                                   sample[1], sample[2]).heap,
        [kind |-> "Object", name |-> "Employee", value |-> EmployeeFields]).heap

NoArguments == [ref |-> 0, index |-> 0, classname |-> "", field |-> ""]

InitObjects ==
    /\ \E opcode \in ArrayOpcodes, above \in OperandsAbove :
         frames = <<[StackFrame_new(MaxLocals, 1 + Len(above),
                                    <<as_u8(opcode)>>, "Main")
                        EXCEPT !.operand_stack.inner = <<1>> \o above]>>
    /\ last = <<>>
    /\ \E sample \in ArraySamples :
          /\ objects = HeapOf(sample).objects
          /\ HEAP_ID = HeapOf(sample).HEAP_ID
    /\ SingleThread
    /\ NoClassfile
    /\ call = [fn |-> "new", code |-> -1, opcode |-> "", before |-> <<>>,
               args |-> NoArguments]
    /\ result = NoResult
    /\ build \in Builds

\* with_heap(|heap| heap.get_array_value(array_ref, index))
GetArrayValue(array_ref, index) ==
    /\ Preparing
    /\ call' = [fn |-> "get_array_value", code |-> -1, opcode |-> "",
                before |-> frames,
                args |-> [NoArguments EXCEPT !.ref = array_ref,
                                             !.index = index]]
    /\ result' = get_array_value(objects, array_ref, index)
    /\ UNCHANGED <<frameVars, heapVars, areaVars, classVars, build>>

\* with_heap(|heap| heap.get_field_value(obj_ref, classname, field))
GetFieldValue(obj_ref, classname, field) ==
    /\ Preparing
    /\ call' = [fn |-> "get_field_value", code |-> -1, opcode |-> "",
                before |-> frames,
                args |-> [NoArguments EXCEPT !.ref = obj_ref,
                                             !.classname = classname,
                                             !.field = field]]
    /\ result' = get_field_value(objects, obj_ref, classname, field)
    /\ UNCHANGED <<frameVars, heapVars, areaVars, classVars, build>>

NextObjects ==
    \/ \E array_ref \in 0..3, index \in -1..MaxIndex :
          GetArrayValue(array_ref, index)
    \/ \E obj_ref \in 0..3, classname \in ClassesAsked, field \in FieldsAsked :
          GetFieldValue(obj_ref, classname, field)
    \/ execute

SpecObjects == InitObjects /\ [][NextObjects]_vars

-----------------------------------------------------------------------------
(* Claims about the heap's reads                                           *)

\* The last call was get_array_value on the array, with an index in it.
ArrayRead ==
    /\ call.fn = "get_array_value"
    /\ call.args.ref = 1
    /\ call.args.index >= 0
    /\ (call.args.index + 1) * Array_size(objects[1].name)
          <= Len(objects[1].value)

\* The bytes of the element read, the least significant first.
ElementBytes ==
    [i \in 1..Array_size(objects[1].name) |->
        objects[1].value[call.args.index * Array_size(objects[1].name) + i]]

\* The element read as a signed number of one, two or four bytes.
SignedElement ==
    CASE Len(ElementBytes) = 1 -> SignExtended(ElementBytes[1], 8)
      [] Len(ElementBytes) = 2 ->
            SignExtended(ElementBytes[1] + 256 * ElementBytes[2], 16)
      [] OTHER -> I32(ElementBytes[1] + 256 * ElementBytes[2],
                      ElementBytes[3] + 256 * ElementBytes[4])

TenToForty ==
    [kind |-> "Array", name |-> "[I",
     value |-> <<10, 0, 0, 0, 20, 0, 0, 0, 30, 0, 0, 0, 40, 0, 0, 0>>]

\* C21: get_array_value on an index of an array returns one slot with the
\* sign-extended element when the elements have 1, 2 or 4 bytes, and two
\* slots that make up the stored element when they have 8; IALOAD on the
\* handle of the ints 10, 20, 30, 40 and the index 2 leaves 30.
C21_ArrayElementAsSlots ==
    /\ (ArrayRead /\ Len(ElementBytes) \in {1, 2, 4}) =>
          /\ result.r = "Ok"
          /\ result.v = <<SignedElement>>
    /\ (ArrayRead /\ Len(ElementBytes) = 8) =>
          /\ result.r = "Ok"
          /\ Len(result.v) = 2
          /\ from_i32_to_i64(result.v[2], result.v[1]) =
                <<ElementBytes[1] + 256 * ElementBytes[2],
                  ElementBytes[3] + 256 * ElementBytes[4],
                  ElementBytes[5] + 256 * ElementBytes[6],
                  ElementBytes[7] + 256 * ElementBytes[8]>>
    /\ (/\ Ran("IALOAD")
        /\ objects[1] = TenToForty
        /\ Before.operand_stack.inner = <<1, 2>>) =>
          /\ result.r = "Ok"
          /\ Top.operand_stack.inner = <<30>>

\* What the Employee's fields are, asked from each class of its hierarchy:
\* `id` is Person's from Person and Employee's from Employee, `name` is
\* inherited, `salary` is known from Employee only.
FieldSeenFrom(classname, field) ==
    CASE classname = "Person" /\ field = "id" -> <<1>>
      [] classname = "Person" /\ field = "name" -> <<5>>
      [] classname = "Employee" /\ field = "id" -> <<2>>
      [] classname = "Employee" /\ field = "name" -> <<5>>
      [] classname = "Employee" /\ field = "salary" -> <<7, 8>>
      [] OTHER -> <<>>

\* C22: get_field_value returns InvalidObjectAcess with the class and the
\* field when the handle is 0 or not an instance's, when the class is not
\* one of the instance's, and when no class at or before it defines the
\* field; otherwise the value of the last definition at or before the
\* class, never one of a class after it.
C22_FieldFromTheHierarchy ==
    call.fn = "get_field_value" =>
        IF /\ call.args.ref = 2
           /\ FieldSeenFrom(call.args.classname, call.args.field) # <<>>
        THEN /\ result.r = "Ok"
             /\ result.v = FieldSeenFrom(call.args.classname, call.args.field)
        ELSE /\ result.r = "InvalidObjectAcess"
             /\ result.v = <<call.args.classname, call.args.field>>

\* Person's `id` was asked of the Employee, whose own `id` comes after it.
C22_Witness ==
    /\ call.fn = "get_field_value"
    /\ call.args.ref = 2
    /\ call.args.classname = "Person"
    /\ call.args.field = "id"
    /\ result.r = "Ok"
    /\ result.v = <<1>>

-----------------------------------------------------------------------------
(* Classfile: the names it answers from its constant pool.                 *)

\* get_with(index, |e| match e { Utf8(s) => Ok(*s), _ => Err(InvalidIndex) })
get_utf8(pool, index) ==
    IF ConstantPool_get(pool, index).r # "Ok"
    THEN ConstantPool_get(pool, index)
    ELSE IF ConstantPool_get(pool, index).v[1].tag = "Utf8"
         THEN [r |-> "Ok", v |-> <<ConstantPool_get(pool, index).v[1].value>>]
         ELSE [r |-> "InvalidIndex", v |-> <<index>>]

\* ConstantPool::get_classname: Class(name_index), then the Utf8 there.
get_classname(pool, index) ==
    IF ConstantPool_get(pool, index).r # "Ok"
    THEN ConstantPool_get(pool, index)
    ELSE IF ConstantPool_get(pool, index).v[1].tag = "Class"
         THEN get_utf8(pool, ConstantPool_get(pool, index).v[1].value[1])
         ELSE [r |-> "InvalidIndex", v |-> <<index>>]

\* Result::ok()
ok(x) == IF x.r = "Ok" THEN x ELSE [r |-> "None", v |-> <<>>]

class_name(class, pool) == ok(get_classname(pool, class.this_class))

super_class(class, pool) == ok(get_classname(pool, class.super_class))

\* A loop that pushes what `one` answers for each of `items`, and returns
\* the first error.
RECURSIVE collect(_, _, _)
collect(answers, k, names) ==
    IF k > Len(answers) THEN [r |-> "Ok", v |-> names]
    ELSE IF answers[k].r # "Ok" THEN answers[k]
    ELSE collect(answers, k + 1, Append(names, answers[k].v[1]))

field_names(class, pool) ==
    collect([k \in 1..Len(class.fields) |->
                get_utf8(pool, class.fields[k].name_index)], 1, <<>>)

\* The descriptor is asked only when the name was found.
signature(pool, m) ==
    IF get_utf8(pool, m.name_index).r # "Ok"
    THEN get_utf8(pool, m.name_index)
    ELSE IF get_utf8(pool, m.descriptor_index).r # "Ok"
    THEN get_utf8(pool, m.descriptor_index)
    ELSE [r |-> "Ok", v |-> <<<<get_utf8(pool, m.name_index).v[1],
                                get_utf8(pool, m.descriptor_index).v[1]>>>>]

methods_signatures(class, pool) ==
    collect([k \in 1..Len(class.methods) |->
                signature(pool, class.methods[k])], 1, <<>>)

interface_names(class, pool) ==
    collect([k \in 1..Len(class.interfaces) |->
                get_classname(pool, class.interfaces[k])], 1, <<>>)

-----------------------------------------------------------------------------
(* A class file is decoded and the class is asked for its names.           *)

\* Major 68; the entries 1 Utf8 "A", 2 Class 1, 3 Utf8 "Record", 4 Class 3,
\* with the count the format has for them (5) or the count of the entries
\* (4); public super class 2 of super class 4, the interface 4, the field
\* "A" of descriptor "Record" and the method "Record" of descriptor "A".
NamedClassBuffers ==
    {<<202, 254, 186, 190, 0, 0, 0, 68>>
        \o <<0, count>>
        \o <<1, 0, 1, 65>> \o <<7, 0, 1>>
        \o <<1, 0, 6, 82, 101, 99, 111, 114, 100>> \o <<7, 0, 3>>
        \o <<0, 33, 0, 2, 0, 4>>
        \o <<0, 1, 0, 4>>
        \o <<0, 1, 0, 1, 0, 1, 0, 3, 0, 0>>
        \o <<0, 1, 0, 1, 0, 3, 0, 1, 0, 0>> : count \in {4, 5}}

InitNames ==
    /\ frames = <<>>
    /\ last = <<>>
    /\ EmptyHeap
    /\ SingleThread
    /\ entries = <<>>
    /\ classfile = None
    /\ \E buff \in Buffers \cup NamedClassBuffers :
          reader = [buff |-> buff, pos |-> 0]
    /\ call = PoolCall("open", -1, NoEntry, <<>>)
    /\ result = NoResult
    /\ build \in ReaderBuilds

\* An accessor of the class that Classfile::new returned.
Ask(fn, answer) ==
    /\ classfile # None
    /\ call' = PoolCall(fn, -1, NoEntry, <<>>)
    /\ result' = answer
    /\ UNCHANGED <<frameVars, heapVars, areaVars, classVars, build>>

ClassName == Ask("class_name", class_name(classfile[1], entries))
SuperClass == Ask("super_class", super_class(classfile[1], entries))
FieldNames == Ask("field_names", field_names(classfile[1], entries))
MethodsSignatures ==
    Ask("methods_signatures", methods_signatures(classfile[1], entries))
InterfaceNames ==
    Ask("interface_names", interface_names(classfile[1], entries))

NextNames ==
    \/ DecodeClassfile
    \/ ClassName
    \/ SuperClass
    \/ FieldNames
    \/ MethodsSignatures
    \/ InterfaceNames

SpecNames == InitNames /\ [][NextNames]_vars

\* The names the file of NamedClassBuffers declares.
NamesDeclared ==
    [class_name |-> <<<<65>>>>,
     super_class |-> <<<<82, 101, 99, 111, 114, 100>>>>,
     field_names |-> <<<<65>>>>,
     methods_signatures |-> <<<<<<82, 101, 99, 111, 114, 100>>, <<65>>>>>>,
     interface_names |-> <<<<82, 101, 99, 111, 114, 100>>>>]

\* C23: a class file that declares a class, a super class, an interface, a
\* field and a method by name decodes to a class, and each accessor of that
\* class answers the declared names, in the order of the file.
C23_AccessorsAnswerTheNames ==
    reader.buff \in NamedClassBuffers =>
        /\ call.fn = "Classfile::new" => result.r = "Ok"
        /\ call.fn \in DOMAIN NamesDeclared =>
              /\ result.r = "Ok"
              /\ result.v = NamesDeclared[call.fn]

-----------------------------------------------------------------------------
(* The tags of the constant pool.                                          *)

\* The tags the class file format has.
KnownTags == {1, 3, 4, 5, 6, 7, 8, 9, 10, 11, 12, 15, 16, 17, 18, 19, 20}

\* The bytes after the tag at buff[at]: for Utf8 the two bytes of the
\* length and as many bytes as they say.
PayloadSize(buff, at) ==
    CASE buff[at] = 1 ->
            IF at + 2 <= Len(buff)
            THEN 2 + buff[at + 1] * 256 + buff[at + 2]
            ELSE 2
      [] buff[at] \in {3, 4} -> 4
      [] buff[at] \in {5, 6} -> 8
      [] buff[at] \in {7, 8, 16, 19, 20} -> 2
      [] buff[at] \in {9, 10, 11, 12, 17, 18} -> 4
      [] buff[at] = 15 -> 3

\* Where a reader stands after the entries of `count` slots that start at
\* pos; -1 when the buffer ends before them, -2 at a tag the format lacks.
RECURSIVE EndOfEntries(_, _, _, _)
EndOfEntries(buff, pos, idx, count) ==
    IF idx >= count THEN pos
    ELSE IF pos + 1 > Len(buff) THEN -1
    ELSE IF buff[pos + 1] \notin KnownTags THEN -2
    ELSE IF pos + 1 + PayloadSize(buff, pos + 1) > Len(buff) THEN -1
    ELSE EndOfEntries(buff, pos + 1 + PayloadSize(buff, pos + 1),
                      idx + (IF buff[pos + 1] \in {5, 6} THEN 2 ELSE 1),
                      count)

\* The end of the pool whose count is at the bytes 8 and 9 of the buffer.
EndOfPool ==
    EndOfEntries(reader.buff, 10, 0,
                 reader.buff[9] * 256 + reader.buff[10])

\* C24: ConstantPool::new decodes every entry whose tag the format has,
\* Utf8 among them, and leaves the reader behind the payload of the last
\* one; a tag the format lacks is fatal.
C24_EveryKnownTagDecodes ==
    (call.fn = "ConstantPool::new" /\ Len(reader.buff) >= 10) =>
        /\ EndOfPool >= 0 => result.r = "Ok"
        /\ EndOfPool >= 0 => reader.pos = EndOfPool
        /\ EndOfPool = -2 => result.r \in Panics

-----------------------------------------------------------------------------
(* StackMapTable: get_attributes on a list of one StackMapTable attribute. *)

MaxFrames == 2

VerificationType(tag, index) == [tag |-> tag, index |-> index]

IntegerVariable == VerificationType(1, 0)
FloatVariable == VerificationType(2, 0)
LongVariable == VerificationType(4, 0)
ObjectVariable == VerificationType(7, 5)
UninitializedVariable == VerificationType(8, 258)

\* A frame as the class file format has it.
Frame_of(tag, offset_delta, locals, stack) ==
    [tag |-> tag, offset_delta |-> offset_delta, locals |-> locals,
     stack |-> stack]

\* Frames of every kind, those at both ends of each range of the frame
\* byte, and the bytes 128 and 246 that no kind has.
StackMapFrames ==
    {Frame_of(0, 0, <<>>, <<>>),
     Frame_of(63, 63, <<>>, <<>>),
     Frame_of(64, 0, <<>>, <<IntegerVariable>>),
     Frame_of(127, 63, <<>>, <<ObjectVariable>>),
     Frame_of(247, 9, <<>>, <<IntegerVariable>>),
     Frame_of(248, 3, <<>>, <<>>),
     Frame_of(250, 258, <<>>, <<>>),
     Frame_of(251, 256, <<>>, <<>>),
     Frame_of(252, 2, <<IntegerVariable>>, <<>>),
     Frame_of(254, 2,
              <<IntegerVariable, ObjectVariable, UninitializedVariable>>,
              <<>>),
     Frame_of(255, 4, <<IntegerVariable>>, <<>>),
     Frame_of(255, 4, <<>>, <<IntegerVariable>>),
     Frame_of(255, 260, <<ObjectVariable, FloatVariable>>,
              <<UninitializedVariable, LongVariable>>),
     Frame_of(128, 0, <<>>, <<>>),
     Frame_of(246, 0, <<>>, <<>>)}

U16Bytes(n) == <<n \div 256, n % 256>>

EncodedType(type) ==
    IF type.tag \in {7, 8} THEN <<type.tag>> \o U16Bytes(type.index)
    ELSE <<type.tag>>

RECURSIVE EncodedTypes(_)
EncodedTypes(types) ==
    IF types = <<>> THEN <<>>
    ELSE EncodedType(Head(types)) \o EncodedTypes(Tail(types))

\* The bytes of a frame in the class file.
EncodedFrame(frame) ==
    <<frame.tag>> \o
    CASE frame.tag \in 0..63 -> <<>>
      [] frame.tag \in 64..127 -> EncodedTypes(frame.stack)
      [] frame.tag = 247 ->
            U16Bytes(frame.offset_delta) \o EncodedTypes(frame.stack)
      [] frame.tag \in 248..251 -> U16Bytes(frame.offset_delta)
      [] frame.tag \in 252..254 ->
            U16Bytes(frame.offset_delta) \o EncodedTypes(frame.locals)
      [] frame.tag = 255 ->
            U16Bytes(frame.offset_delta)
                \o U16Bytes(Len(frame.locals)) \o EncodedTypes(frame.locals)
                \o U16Bytes(Len(frame.stack)) \o EncodedTypes(frame.stack)
      [] OTHER -> <<>>

RECURSIVE EncodedFrames(_)
EncodedFrames(table) ==
    IF table = <<>> THEN <<>>
    ELSE EncodedFrame(Head(table)) \o EncodedFrames(Tail(table))

FrameTables == UNION {[1..n -> StackMapFrames] : n \in 0..MaxFrames}

\* An attribute list of one attribute, named by entry 1 of the pool, whose
\* info is the number of frames and the frames.  The length of the info is
\* below 256.
StackMapTableBytes(table) ==
    <<0, 1>> \o <<0, 1>>
        \o <<0, 0, 0, 2 + Len(EncodedFrames(table))>>
        \o U16Bytes(Len(table)) \o EncodedFrames(table)

StackMapTablePool == <<Entry("Utf8", Utf8("StackMapTable"))>>

InitFrames ==
    /\ frames = <<>>
    /\ last = <<>>
    /\ EmptyHeap
    /\ SingleThread
    /\ entries = PoolOf(<<>>, StackMapTablePool)
    /\ classfile = None
    /\ \E table \in FrameTables, rest \in {<<>>, <<0, 33>>} :
          /\ reader = [buff |-> StackMapTableBytes(table) \o rest,
                       pos |-> 0]
          /\ call = [fn |-> "open", index |-> -1, entry |-> NoEntry,
                     pushed |-> StackMapTablePool, table |-> table]
    /\ result = NoResult
    /\ build \in ReaderBuilds

NextFrames == GetAttributes

SpecFrames == InitFrames /\ [][NextFrames]_vars

\* The kind of a frame byte, by the names of FrameType.
KindOfFrameByte(tag) ==
    CASE tag \in 0..63 -> "SameFrame"
      [] tag \in 64..127 -> "SameStack"
      [] tag = 247 -> "SameStackExtended"
      [] tag \in 248..250 -> "ChopFrame"
      [] tag = 251 -> "SameFrameExtended"
      [] tag \in 252..254 -> "AppendFrame"
      [] tag = 255 -> "FullFrame"
      [] OTHER -> ""

ChoppedOrAppended(tag) ==
    CASE tag \in 248..250 -> 251 - tag
      [] tag \in 252..254 -> tag - 251
      [] OTHER -> 0

\* The offset_delta of a frame: in the frame byte for the first two kinds,
\* the u16 after the frame byte for the others.
OffsetDeltaOf(frame) ==
    CASE frame.tag \in 0..63 -> frame.tag
      [] frame.tag \in 64..127 -> frame.tag - 64
      [] OTHER -> frame.offset_delta

\* get_attributes has returned; the table it was given has frames of the
\* kinds in `last` at its end and of the kinds in `before` before it.
DecodedTable(before, at_end) ==
    /\ call.fn = "get_attributes"
    /\ call.table # <<>>
    /\ \A k \in 1..Len(call.table) :
          KindOfFrameByte(call.table[k].tag) \in
              (IF k = Len(call.table) THEN at_end ELSE before)

FrameKinds ==
    {"SameFrame", "SameStack", "SameStackExtended", "ChopFrame",
     "SameFrameExtended", "AppendFrame", "FullFrame"}

\* The entries of the StackMapTable that get_attributes returned.
Returned_entries == result.v[1][1].entries

\* C25: every frame of a StackMapTable is decoded to the kind of its frame
\* byte, with k = 251 - byte for a ChopFrame and byte - 251 for an
\* AppendFrame, and to the offset_delta the byte holds (SameFrame: the
\* byte, SameStack: the byte less 64) or the u16 after the byte (247 to
\* 255).  Tables with a FullFrame before their last frame are left to C26.
C25_FrameKindAndOffsetDelta ==
    DecodedTable(FrameKinds \ {"FullFrame"}, FrameKinds) =>
        /\ result.r = "Ok"
        /\ Len(Returned_entries) = Len(call.table)
        /\ \A k \in 1..Len(call.table) :
              /\ Returned_entries[k].frame_type.kind =
                    KindOfFrameByte(call.table[k].tag)
              /\ Returned_entries[k].frame_type.k =
                    ChoppedOrAppended(call.table[k].tag)
              /\ Returned_entries[k].offset_delta =
                    OffsetDeltaOf(call.table[k])

\* C26: a table of FullFrames is decoded to the offset_delta, the locals
\* and the stack of each frame, and the reader is left behind the bytes of
\* the table.
C26_FullFrameIsReadWhole ==
    DecodedTable({"FullFrame"}, {"FullFrame"}) =>
        /\ result.r = "Ok"
        /\ Len(Returned_entries) = Len(call.table)
        /\ \A k \in 1..Len(call.table) :
              /\ Returned_entries[k].offset_delta =
                    call.table[k].offset_delta
              /\ Returned_entries[k].locals = call.table[k].locals
              /\ Returned_entries[k].stack = call.table[k].stack
        /\ reader.pos = Len(StackMapTableBytes(call.table))

-----------------------------------------------------------------------------
(* The binary integer operators on operands up to both ends of their       *)
(* types.                                                                  *)

IntOperands == {MIN32, -1, 0, 1, 3, 7, 65536, MAX32}

\* 0x0123_4567_89AB_CDEF
LongOfTheExample == <<52719, 35243, 17767, 291>>
MIN64 == <<0, 0, 0, 32768>>
MAX64 == <<65535, 65535, 65535, 32767>>

\* The i64 of a small integer.
LimbsOf(n) ==
    <<n % Limb, (n \div Limb) % Limb,
      IF n < 0 THEN Limb - 1 ELSE 0, IF n < 0 THEN Limb - 1 ELSE 0>>

LongOperands ==
    {MIN64, MAX64, LongOfTheExample}
        \cup {LimbsOf(n) : n \in {-1, 0, 1, 3, 7}}

IntOpcodes ==
    {"IADD", "ISUB", "IMUL", "IDIV", "IREM", "IAND", "IOR", "IXOR"}
LongOpcodes ==
    {"LADD", "LSUB", "LMUL", "LDIV", "LREM", "LAND", "LOR", "LXOR"}

\* A frame after the caller's pushes of a and b, and for the example a frame
\* with the long alone and the bytecode LCONST_1, LADD.
MathFrames ==
    {push("i32", push("i32", StackFrame_new(MaxLocals, MaxStack,
                                            <<as_u8(opcode)>>, "Main"),
                      a).f, b).f :
        opcode \in IntOpcodes, a \in IntOperands, b \in IntOperands}
    \cup
    {push("i64", push("i64", StackFrame_new(MaxLocals, MaxStack,
                                            <<as_u8(opcode)>>, "Main"),
                      a).f, b).f :
        opcode \in LongOpcodes, a \in LongOperands, b \in LongOperands}
    \cup
    {push("i64", StackFrame_new(MaxLocals, MaxStack,
                                <<as_u8("LCONST_1"), as_u8("LADD")>>,
                                "Main"), a).f :
        a \in LongOperands}

InitMath ==
    /\ \E frame \in MathFrames : frames = <<frame>>
    /\ last = <<>>
    /\ objects = HeapAtStart.objects
    /\ HEAP_ID = HeapAtStart.HEAP_ID
    /\ SingleThread
    /\ NoClassfile
    /\ call = [fn |-> "new", code |-> -1, opcode |-> "", before |-> <<>>]
    /\ result = NoResult
    /\ build \in Builds

NextMath == execute

SpecMath == InitMath /\ [][NextMath]_vars

\* a + b in 32 bits.
Sum32(a, b) ==
    IF a >= 0 /\ b >= 0
    THEN IF a <= MAX32 - b THEN a + b
         ELSE ((a - MAX32) - 1) + ((b - MAX32) - 1)
    ELSE IF a < 0 /\ b < 0
    THEN IF a >= MIN32 - b THEN a + b
         ELSE ((a + MAX32) + 1) + ((b + MAX32) + 1)
    ELSE a + b

\* a - b in 32 bits.
Difference32(a, b) ==
    IF b = MIN32 THEN Sum32(Sum32(a, MAX32), 1) ELSE Sum32(a, 0 - b)

\* a * c in 32 bits for a c of 0 to 256, by the two halves of a.
Times32(a, c) ==
    I32(((a % Limb) * c) % Limb,
        ((a \div Limb) * c + ((a % Limb) * c) \div Limb) % Limb)

\* Byte k of b, 0 the lowest.
ByteOf(b, k) == (b \div (256 ^ k)) % 256

\* a * b in 32 bits, by the four bytes of b.
Product32(a, b) ==
    Sum32(Times32(a, ByteOf(b, 0)),
          Times32(Sum32(Times32(a, ByteOf(b, 1)),
                        Times32(Sum32(Times32(a, ByteOf(b, 2)),
                                      Times32(Times32(a, ByteOf(b, 3)),
                                              256)),
                                256)),
                  256))

\* a / b towards zero for b # 0, and MIN / -1 = MIN.
Quotient32(a, b) ==
    CASE b = MIN32 -> IF a = MIN32 THEN 1 ELSE 0
      [] b = -1 /\ a = MIN32 -> MIN32
      [] b > 0 /\ a >= 0 -> a \div b
      [] b > 0 /\ a < 0 -> 0 - ((0 - (a + 1)) \div b)
                              - (IF (0 - (a + 1)) % b = b - 1 THEN 1 ELSE 0)
      [] b < 0 /\ b # MIN32 /\ a >= 0 -> 0 - (a \div (0 - b))
      [] b < 0 /\ b # MIN32 /\ a < 0 ->
            ((0 - (a + 1)) \div (0 - b))
                + (IF (0 - (a + 1)) % (0 - b) = (0 - b) - 1 THEN 1 ELSE 0)

\* a - b * (a / b)
Remainder32(a, b) ==
    IF b = -1 THEN 0 ELSE a - b * Quotient32(a, b)

\* The bit operator on two bits.
BitOf(opcode, x, y) ==
    CASE opcode \in {"IAND", "LAND"} -> IF x = 1 /\ y = 1 THEN 1 ELSE 0
      [] opcode \in {"IOR", "LOR"} -> IF x = 1 \/ y = 1 THEN 1 ELSE 0
      [] opcode \in {"IXOR", "LXOR"} -> IF x # y THEN 1 ELSE 0

\* The bit operator on two limbs.
RECURSIVE Bitwise16(_, _, _, _)
Bitwise16(opcode, x, y, n) ==
    IF n = 0 THEN 0
    ELSE BitOf(opcode, x % 2, y % 2)
            + 2 * Bitwise16(opcode, x \div 2, y \div 2, n - 1)

\* The bit operator on two i32, by their halves.
Bitwise32(opcode, a, b) ==
    I32(Bitwise16(opcode, a % Limb, b % Limb, 16),
        Bitwise16(opcode, (a \div Limb) % Limb, (b \div Limb) % Limb, 16))

\* What the opcode is to leave for the i32 a and b, b # 0 for IDIV and IREM.
IntResult(opcode, a, b) ==
    CASE opcode = "IADD" -> Sum32(a, b)
      [] opcode = "ISUB" -> Difference32(a, b)
      [] opcode = "IMUL" -> Product32(a, b)
      [] opcode = "IDIV" -> Quotient32(a, b)
      [] opcode = "IREM" -> Remainder32(a, b)
      [] OTHER -> Bitwise32(opcode, a, b)

\* An i64 of -7 to 7, and its integer.
IsSmall(x) == \E n \in -7..7 : x = LimbsOf(n)
SmallOf(x) == CHOOSE n \in -7..7 : x = LimbsOf(n)

\* What the opcode is to leave for the i64 a and b at the ends of the type.
LongResults ==
    {<<"LADD", LongOfTheExample, LimbsOf(1), <<52720, 35243, 17767, 291>>>>,
     <<"LADD", MAX64, LimbsOf(1), MIN64>>,
     <<"LADD", MIN64, LimbsOf(-1), MAX64>>,
     <<"LADD", MIN64, MIN64, LimbsOf(0)>>,
     <<"LSUB", MIN64, LimbsOf(1), MAX64>>,
     <<"LSUB", LimbsOf(0), MIN64, MIN64>>,
     <<"LSUB", LimbsOf(-1), MAX64, MIN64>>,
     <<"LMUL", MIN64, LimbsOf(-1), MIN64>>,
     <<"LMUL", MAX64, LimbsOf(3), <<65533, 65535, 65535, 32767>>>>,
     <<"LMUL", MAX64, MAX64, LimbsOf(1)>>,
     <<"LDIV", MIN64, LimbsOf(-1), MIN64>>,
     <<"LDIV", MIN64, LimbsOf(1), MIN64>>,
     <<"LDIV", MAX64, LimbsOf(-1), <<1, 0, 0, 32768>>>>,
     <<"LDIV", LimbsOf(7), MAX64, LimbsOf(0)>>,
     <<"LDIV", MIN64, MAX64, LimbsOf(-1)>>,
     <<"LREM", MIN64, LimbsOf(-1), LimbsOf(0)>>,
     <<"LREM", MIN64, MAX64, LimbsOf(-1)>>,
     <<"LREM", LimbsOf(-7), MAX64, LimbsOf(-7)>>}

\* The same for an i64 a and b of -7 to 7, b # 0 for LDIV and LREM.
SmallResult(opcode, a, b) ==
    LimbsOf(IntResult([LADD |-> "IADD", LSUB |-> "ISUB", LMUL |-> "IMUL",
                       LDIV |-> "IDIV", LREM |-> "IREM"][opcode], a, b))

LongBitwise(opcode, a, b) ==
    [k \in 1..4 |-> Bitwise16(opcode, a[k], b[k], 16)]

\* The operands of the opcode that ran: b was on top, a below it.
OperandA(T) == SecondPopped(T, T).v[1]
OperandB(T) == FirstPopped(T).v[1]

\* C27: a binary integer operator run on a (below) and b (on top), b # 0
\* for a division or a remainder, leaves op(a, b) in place of the two, in
\* wrapping two's-complement arithmetic of 32 or 64 bits: MIN / -1 = MIN,
\* 7 + 3 = 10, and 0x0123_4567_89AB_CDEF, LCONST_1, LADD leaves
\* 0x0123_4567_89AB_CDF0 with no more than 4 slots in use.
C27_BinaryIntegerOperators ==
    /\ \A opcode \in IntOpcodes :
          (/\ Ran(opcode)
           /\ HasOperands("i32", "i32")
           /\ opcode \in {"IDIV", "IREM"} => OperandB("i32") # 0) =>
              /\ Replaced("i32", "i32", "i32")
              /\ Pushed("i32") =
                    IntResult(opcode, OperandA("i32"), OperandB("i32"))
    /\ \A opcode \in LongOpcodes :
          (/\ Ran(opcode)
           /\ HasOperands("i64", "i64")
           /\ opcode \in {"LDIV", "LREM"} => OperandB("i64") # Zero(4)) =>
              /\ Replaced("i64", "i64", "i64")
              /\ opcode \in {"LAND", "LOR", "LXOR"} =>
                    Pushed("i64") =
                        LongBitwise(opcode, OperandA("i64"), OperandB("i64"))
              /\ (/\ opcode \notin {"LAND", "LOR", "LXOR"}
                  /\ IsSmall(OperandA("i64"))
                  /\ IsSmall(OperandB("i64"))) =>
                    Pushed("i64") =
                        SmallResult(opcode, SmallOf(OperandA("i64")),
                                    SmallOf(OperandB("i64")))
              /\ \A known \in LongResults :
                    (/\ known[1] = opcode
                     /\ known[2] = OperandA("i64")
                     /\ known[3] = OperandB("i64")) =>
                        Pushed("i64") = known[4]
    /\ \A k \in 1..Len(frames) : Depth(frames[k]) <= 4

\* LADD has run after LCONST_1 on the long of the example, on four slots.
C27_Witness ==
    /\ Ran("LADD")
    /\ Before.pc = 1
    /\ Depth(Before) = 4
    /\ OperandA("i64") = LongOfTheExample
    /\ Pushed("i64") = <<52720, 35243, 17767, 291>>
    /\ Depth(Top) = 2

-----------------------------------------------------------------------------
(* The conditional branches.                                               *)

UnaryBranches == {"IFEQ", "IFNE", "IFLT", "IFGE", "IFGT", "IFLE"}
BinaryBranches ==
    {"IF_ICMPEQ", "IF_ICMPNE", "IF_ICMPLT", "IF_ICMPGE", "IF_ICMPGT",
     "IF_ICMPLE", "IF_ACMPEQ", "IF_ACMPNE"}

\* The slots a branch pops.
OperandsOfBranch(opcode) == IF opcode \in UnaryBranches THEN 1 ELSE 2

\* The slot k below the top of the frame the call was made on, 0 the top.
BelowTop(k) == Before.operand_stack.inner[Depth(Before) - k]

\* The predicate of the branch on the slots it pops: the top alone, or the
\* slot below the top on the left and the top on the right.
BranchTaken(opcode) ==
    CASE opcode = "IFEQ" -> BelowTop(0) = 0
      [] opcode = "IFNE" -> BelowTop(0) # 0
      [] opcode = "IFLT" -> BelowTop(0) < 0
      [] opcode = "IFGE" -> BelowTop(0) >= 0
      [] opcode = "IFGT" -> BelowTop(0) > 0
      [] opcode = "IFLE" -> BelowTop(0) <= 0
      [] opcode \in {"IF_ICMPEQ", "IF_ACMPEQ"} -> BelowTop(1) = BelowTop(0)
      [] opcode \in {"IF_ICMPNE", "IF_ACMPNE"} -> BelowTop(1) # BelowTop(0)
      [] opcode = "IF_ICMPLT" -> BelowTop(1) < BelowTop(0)
      [] opcode = "IF_ICMPGE" -> BelowTop(1) >= BelowTop(0)
      [] opcode = "IF_ICMPGT" -> BelowTop(1) > BelowTop(0)
      [] opcode = "IF_ICMPLE" -> BelowTop(1) <= BelowTop(0)

\* The two bytes after the opcode as a signed 16-bit big-endian number.
OffsetOfBranch ==
    IF Before.bytecode[Before.pc + 2] >= 128
    THEN (Before.bytecode[Before.pc + 2] - 256) * 256
            + Before.bytecode[Before.pc + 3]
    ELSE Before.bytecode[Before.pc + 2] * 256 + Before.bytecode[Before.pc + 3]

\* The interpreter or the handler of the comparisons was given a branch
\* with its operands on the stack, its offset in the bytecode and a target
\* that is not before the bytecode.
Branched(opcode) ==
    /\ call.fn \in {"execute", "comparisons::process"}
    /\ call.code \in as_u8("IFEQ")..as_u8("IF_ACMPNE")
    /\ call.opcode = opcode
    /\ Depth(Before) >= OperandsOfBranch(opcode)
    /\ Before.pc + 2 < Len(Before.bytecode)
    /\ Before.pc + OffsetOfBranch >= 0

\* C28: a conditional branch pops its one or two operands and nothing
\* else, leaves the locals as they were, and moves the pc by the signed
\* 16-bit offset after the opcode when its predicate holds (the second
\* popped being the left operand) and by 3 when not.
C28_ConditionalBranch ==
    \A opcode \in UnaryBranches \cup BinaryBranches :
        Branched(opcode) =>
            /\ result.r = "Ok"
            /\ Top.pc = Before.pc + (IF BranchTaken(opcode)
                                     THEN OffsetOfBranch ELSE 3)
            /\ Top.variables = Before.variables
            /\ Top.operand_stack.inner =
                  SubSeq(Before.operand_stack.inner, 1,
                         Depth(Before) - OperandsOfBranch(opcode))

-----------------------------------------------------------------------------
(* The opcodes that move the slots of the operand stack, on frames with    *)
(* room for what they push.                                                *)

MaxShuffleStack == 7
MaxShuffled == 5

ShuffleOpcodes ==
    {"POP", "POP2", "DUP", "DUP_X1", "DUP_X2", "DUP2", "DUP2_X1", "DUP2_X2",
     "SWAP"}

\* A frame after the caller's pushes of 1 to n, and two of the opcodes.
ShuffleFrames ==
    {PushAll(StackFrame_new(MaxLocals, capacity,
                            <<as_u8(first), as_u8(second)>>, "Main"),
             [k \in 1..n |-> k]).f :
        first \in ShuffleOpcodes, second \in ShuffleOpcodes,
        n \in 0..MaxShuffled, capacity \in MaxShuffled..MaxShuffleStack}

InitShuffle ==
    /\ \E frame \in ShuffleFrames : frames = <<frame>>
    /\ last = <<>>
    /\ objects = HeapAtStart.objects
    /\ HEAP_ID = HeapAtStart.HEAP_ID
    /\ SingleThread
    /\ NoClassfile
    /\ call = [fn |-> "new", code |-> -1, opcode |-> "", before |-> <<>>]
    /\ result = NoResult
    /\ build \in Builds

NextShuffle == execute

SpecShuffle == InitShuffle /\ [][NextShuffle]_vars

\* The slots the opcode takes from the top, and what it leaves for them:
\* a is the top, b the slot below it, c and d those below b.
TakenBy(opcode) ==
    CASE opcode \in {"POP", "DUP"} -> 1
      [] opcode \in {"POP2", "DUP_X1", "DUP2", "SWAP"} -> 2
      [] opcode \in {"DUP_X2", "DUP2_X1"} -> 3
      [] opcode = "DUP2_X2" -> 4

LeftBy(opcode, a, b, c, d) ==
    CASE opcode \in {"POP", "POP2"} -> <<>>
      [] opcode = "DUP" -> <<a, a>>
      [] opcode = "DUP_X1" -> <<a, b, a>>
      [] opcode = "DUP_X2" -> <<a, c, b, a>>
      [] opcode = "DUP2" -> <<b, a, b, a>>
      [] opcode = "DUP2_X1" -> <<b, a, c, b, a>>
      [] opcode = "DUP2_X2" -> <<b, a, d, c, b, a>>
      [] opcode = "SWAP" -> <<a, b>>

\* The slot k below the top of the frame before the call, 0 when the
\* opcode does not take it.
TakenSlot(opcode, k) == IF k < TakenBy(opcode) THEN BelowTop(k) ELSE 0

\* The opcode ran on a frame with the slots it takes and room for the
\* slots it leaves.
Shuffled(opcode) ==
    /\ Ran(opcode)
    /\ Depth(Before) >= TakenBy(opcode)
    /\ Depth(Before) - TakenBy(opcode) + Len(LeftBy(opcode, 0, 0, 0, 0))
          <= Before.operand_stack.capacity

\* C29: POP, POP2, DUP, DUP_X1, DUP_X2, DUP2, DUP2_X1, DUP2_X2 and SWAP
\* leave, for the slots they take from the top, the slots the instruction
\* set lists, above the same lower slots; the locals stay and the pc
\* advances by 1.
C29_StackManipulation ==
    \A opcode \in ShuffleOpcodes :
        Shuffled(opcode) =>
            /\ result.r = "Ok"
            /\ Top.operand_stack.inner =
                  SubSeq(Before.operand_stack.inner, 1,
                         Depth(Before) - TakenBy(opcode))
                      \o LeftBy(opcode, TakenSlot(opcode, 0),
                                TakenSlot(opcode, 1), TakenSlot(opcode, 2),
                                TakenSlot(opcode, 3))
            /\ Top.variables = Before.variables
            /\ Top.pc = Before.pc + 1

\* DUP2_X2 has run on the four upper slots of five.
C29_Witness ==
    /\ Ran("DUP2_X2")
    /\ Before.operand_stack.inner = <<1, 2, 3, 4, 5>>
    /\ Top.operand_stack.inner = <<1, 4, 5, 2, 3, 4, 5>>
    /\ Top.pc = 1

-----------------------------------------------------------------------------
(* The array stores.                                                       *)

\* The arrays an array store is for, and the type of the value it pops.
ArrayStores ==
    [IASTORE |-> [names |-> {"[I"}, T |-> "i32"],
     LASTORE |-> [names |-> {"[J"}, T |-> "i64"],
     FASTORE |-> [names |-> {"[F"}, T |-> "f32"],
     DASTORE |-> [names |-> {"[D"}, T |-> "f64"],
     AASTORE |-> [names |-> {"[Ljava/lang/Object;"}, T |-> "i32"],
     BASTORE |-> [names |-> {"[B", "[Z"}, T |-> "i32"],
     CASTORE |-> [names |-> {"[C"}, T |-> "i32"],
     SASTORE |-> [names |-> {"[S"}, T |-> "i32"]]

SlotsOfType(T) == IF T \in {"i64", "f64"} THEN 2 ELSE 1

\* The store ran on a frame that held the handle of an array of its type,
\* an index of that array and, on top, a value of its type.
StoredInto(opcode) ==
    /\ Ran(opcode)
    /\ Depth(Before) = 2 + SlotsOfType(ArrayStores[opcode].T)
    /\ Before.operand_stack.inner[1] = 1
    /\ objects[1].name \in ArrayStores[opcode].names
    /\ Before.operand_stack.inner[2] \in
          0..((Len(objects[1].value) \div Array_size(objects[1].name)) - 1)

\* The element of the array 1 at the index the store was given, as a value
\* of type T.
ElementStored(T) ==
    from_slice(T, Top,
               get_array_value(objects, 1,
                               Before.operand_stack.inner[2]).v[1]).v[1]

\* C30: an array store pops the value, the index and the array, pushes
\* nothing and advances the pc by 1; the element at the index then reads
\* as the value stored.
C30_ArrayStoreWritesTheElement ==
    \A opcode \in DOMAIN ArrayStores :
        StoredInto(opcode) =>
            /\ result.r = "Ok"
            /\ Depth(Top) = 0
            /\ Top.pc = Before.pc + 1
            /\ get_array_value(objects, 1,
                               Before.operand_stack.inner[2]).r = "Ok"
            /\ ElementStored(ArrayStores[opcode].T) =
                  pop(ArrayStores[opcode].T, Before).v[1]

-----------------------------------------------------------------------------
(* The classes of the method area, their methods and their fields.  An     *)
(* IndexMap is the sequence of its [key, value] entries in insertion       *)
(* order.  A string that is split at its colons is the sequence of the     *)
(* parts between them: "main:()V" is <<"main", "()V">> and "main" is       *)
(* <<"main">>.  A FieldValue is [id, value]: the RwLock it owns and the    *)
(* Vec<i32> behind it; two FieldValues with one id are one cell.           *)

\* IndexMap::get_full: the index, the key and the value, or None.
IndexMap_get_full(map, key) ==
    LET found == {i \in 1..Len(map) : map[i].key = key}
    IN  IF found = {} THEN None
        ELSE LET i == CHOOSE i \in found : TRUE
             IN  Some([idx |-> i - 1, key |-> key, value |-> map[i].value])

IndexMap_contains_key(map, key) == IndexMap_get_full(map, key) # None

\* An insert that puts a new key first.
IndexMap_insert_first(map, key, value) ==
    <<[key |-> key, value |-> value]>> \o map

\* IndexMap::insert: the value of a key already there is replaced where it
\* stands, a new key is put last.
IndexMap_insert(map, key, value) ==
    IF IndexMap_contains_key(map, key)
    THEN [i \in 1..Len(map) |->
             IF map[i].key = key THEN [key |-> key, value |-> value]
             ELSE map[i]]
    ELSE Append(map, [key |-> key, value |-> value])

\* signature.split(":").next(): the text before the first colon.  A split
\* has a first part whatever the string.
split_next(sig) == Some(<<sig[1]>>)

\* self.methods.get_full(signature).or_else(|| self.methods.get_full(
\*     signature.split(":").next()?))
get_full_method(class, sig) ==
    LET exact == IndexMap_get_full(class.methods, sig)
    IN  IF exact # None THEN Some(<<exact[1].idx, exact[1].value>>)
        ELSE IF split_next(sig) = None THEN None
        ELSE LET named == IndexMap_get_full(class.methods,
                                            split_next(sig)[1])
             IN  IF named # None THEN Some(<<named[1].idx, named[1].value>>)
                 ELSE None

MethodNotFound(sig) == [r |-> "MethodNotFound", v |-> <<sig>>]

get_method(class, sig) ==
    IF get_full_method(class, sig) = None
    THEN MethodNotFound(sig)
    ELSE [r |-> "Ok", v |-> <<get_full_method(class, sig)[1][2]>>]


\* Class::with_classname, and the class a loader would make of a class
\* file: these methods, this parent and this schema of instance fields.
Class_of(classname, methods, parent, fields_schema) ==
    [name |-> classname, methods |-> methods, static_fields |-> <<>>,
     parent |-> parent, fields_hierarchy |-> None,
     fields_schema |-> fields_schema]

\* FieldValue::new and impl Clone for FieldValue: the Vec is copied behind
\* a lock of its own, the one numbered id.
FieldValue_new(id, value) == [id |-> id, value |-> value]

FieldValue_shared(field, id) == field

FieldValue_clone(field, id) == FieldValue_new(id, field.value)

\* IndexMap<String, FieldValue>::clone: the locks made are numbered from
\* `made` + 1 on.
clone_fields(fields, made) ==
    [i \in 1..Len(fields) |->
        [key |-> fields[i].key,
         value |-> FieldValue_clone(fields[i].value, made + i)]]

\* The FieldValues of the first k classes of a hierarchy.
RECURSIVE CountFields(_, _)
CountFields(hierarchy, k) ==
    IF k = 0 THEN 0
    ELSE Len(hierarchy[k].value) + CountFields(hierarchy, k - 1)

\* IndexMap<String, IndexMap<String, FieldValue>>::clone
clone_hierarchy(hierarchy, made) ==
    [k \in 1..Len(hierarchy) |->
        [key |-> hierarchy[k].key,
         value |-> clone_fields(hierarchy[k].value,
                                made + CountFields(hierarchy, k - 1))]]

\* MethodArea::get in one thread.  m is [area, made]: the method area and
\* the count of the locks made so far; the Arc<Class> returned is told by
\* the name the area keeps it under.
area_get(m, classname) ==
    IF classname \in DOMAIN m.area.classes
    THEN [m |-> m, r |-> "Ok", v |-> <<classname>>]
    ELSE IF starts_with_bracket(classname)
    THEN [m |-> [m EXCEPT !.area.classes =
                    DashMap_insert(@, classname,
                                   Class_of(classname, <<>>, None, <<>>))],
          r |-> "Ok", v |-> <<classname>>]
    ELSE [m |-> m, r |-> "panic_todo", v |-> <<>>]

\* MethodArea::fill_fields_hierarchy.  x is [m, acc]: acc is
\* instance_fields_hierarchy.
RECURSIVE fill_fields_hierarchy(_, _)
fill_fields_hierarchy(x, classname) ==
    IF IndexMap_contains_key(x.acc, classname)
    THEN [m |-> x.m, acc |-> x.acc, r |-> "Ok"]
    ELSE LET rc == area_get(x.m, classname)
         IN  IF rc.r # "Ok" THEN [m |-> rc.m, acc |-> x.acc, r |-> rc.r]
             ELSE LET class == rc.m.area.classes[classname]
                      up == IF class.parent # None
                            THEN fill_fields_hierarchy(
                                     [m |-> rc.m, acc |-> x.acc],
                                     class.parent[1])
                            ELSE [m |-> rc.m, acc |-> x.acc, r |-> "Ok"]
                  IN  IF up.r # "Ok" THEN up
                      ELSE [m |-> [up.m EXCEPT !.made =
                                      @ + Len(class.fields_schema)],
                            acc |-> IndexMap_insert(
                                        up.acc, classname,
                                        clone_fields(class.fields_schema,
                                                     up.m.made)),
                            r |-> "Ok"]

\* Class::get_instance_fields: fields_hierarchy.get_or_try_init(..).  The
\* cell stays empty when the closure fails.
get_instance_fields(m, classname) ==
    IF m.area.classes[classname].fields_hierarchy # None
    THEN [m |-> m, r |-> "Ok",
          v |-> m.area.classes[classname].fields_hierarchy]
    ELSE LET fields ==
                 fill_fields_hierarchy(
                     [m |-> m, acc |-> <<>>],
                     m.area.classes[classname].name)
         IN  IF fields.r # "Ok"
             THEN [m |-> fields.m, r |-> fields.r, v |-> <<>>]
             ELSE [m |-> [fields.m EXCEPT
                             !.area.classes[classname].fields_hierarchy =
                                 Some(fields.acc)],
                   r |-> "Ok", v |-> Some(fields.acc)]

\* MethodArea::create_instance_with_default
create_instance_with_default(m, classname) ==
    LET class == area_get(m, classname)
    IN  IF class.r # "Ok" THEN class
        ELSE LET fields == get_instance_fields(class.m, class.v[1])
             IN  IF fields.r # "Ok" THEN fields
                 ELSE [m |-> [fields.m EXCEPT !.made =
                                 @ + CountFields(fields.v[1],
                                                 Len(fields.v[1]))],
                       r |-> "Ok",
                       v |-> <<[kind |-> "Object", name |-> classname,
                                value |-> clone_hierarchy(fields.v[1],
                                                          fields.m.made)]>>]

\* FieldValue::set on the lock numbered id, seen from a map of fields and
\* from a hierarchy: *guard = value.
set_in_fields(fields, id, value) ==
    [i \in 1..Len(fields) |->
        IF fields[i].value.id = id
        THEN [fields[i] EXCEPT !.value.value = value]
        ELSE fields[i]]

set_in_hierarchy(hierarchy, id, value) ==
    [k \in 1..Len(hierarchy) |->
        [hierarchy[k] EXCEPT !.value = set_in_fields(@, id, value)]]

set_in_class(class, id, value) ==
    [class EXCEPT
        !.fields_schema = set_in_fields(@, id, value),
        !.fields_hierarchy =
            IF @ = None THEN None
            ELSE Some(set_in_hierarchy(@[1], id, value))]


-----------------------------------------------------------------------------
(* The calls on the classes: the area holds the primitive classes and the  *)
(* classes of an Employee, a Person and java/lang/Object; instances are    *)
(* made of them and kept on the heap, and a field of one is set.           *)

\* An Arc<Method>.
Method_of(classname, sig) ==
    [classname |-> classname, signature |-> sig]

MethodKeys ==
    {<<"<init>", "()V">>, <<"main", "([Ljava/lang/String;)V">>,
     <<"run", "()V">>, <<"run", "(I)V">>}

MaxMethods == 2

\* The methods of a class file in their order: no two of one signature.
MethodTables ==
    {keys \in UNION {[1..n -> MethodKeys] : n \in 0..MaxMethods} :
        \A i, j \in 1..Len(keys) : keys[i] = keys[j] => i = j}

\* The methods of an Employee in the order of its class file.
EmployeeMethods ==
    <<<<"<init>", "()V">>, <<"run", "(I)V">>,
      <<"main", "([Ljava/lang/String;)V">>, <<"run", "()V">>>>

methods_of(classname, keys) ==
    [i \in 1..Len(keys) |->
        [key |-> keys[i], value |-> Method_of(classname, keys[i])]]

\* The signatures asked for: the keys, a key no class has, and names
\* without a descriptor.
SignaturesAsked ==
    MethodKeys \cup {<<"main", "()V">>, <<"main">>, <<"run">>, <<"stop">>}

\* The default of a field of one slot and of a field of two.
DefaultOf(slots) == [i \in 1..slots |-> 0]

\* The schema of each class: the field, its slots and its lock.
PersonSchema ==
    <<[key |-> "name", value |-> FieldValue_new(1, DefaultOf(1))],
      [key |-> "id", value |-> FieldValue_new(2, DefaultOf(1))]>>

EmployeeSchema ==
    <<[key |-> "id", value |-> FieldValue_new(3, DefaultOf(1))],
      [key |-> "salary", value |-> FieldValue_new(4, DefaultOf(2))]>>

LoadedClasses == {"java/lang/Object", "Person", "Employee"}

LoadedArea(keys) ==
    [classname \in PRIMITIVE_TYPE \cup LoadedClasses |->
        CASE classname = "java/lang/Object" ->
                 Class_of(classname,
                          methods_of(classname, <<<<"<init>", "()V">>>>),
                          None, <<>>)
          [] classname = "Person" ->
                 Class_of(classname, <<>>, Some("java/lang/Object"),
                          PersonSchema)
          [] classname = "Employee" ->
                 Class_of(classname, methods_of(classname, keys),
                          Some("Person"), EmployeeSchema)
          [] OTHER -> Class_of(classname, <<>>, None, <<>>)]

ClassnamesAsked == ClassesAsked \cup {"[I"}

MaxInstances == 2

\* The maps fill_fields_hierarchy is handed: an empty one, one that has
\* the root, one that has a class of the chain under fields of the
\* caller's behind the lock that follows those of the schemas, one that
\* has a class of another chain.
AccSamples ==
    {<<>>,
     <<[key |-> "java/lang/Object", value |-> <<>>]>>,
     <<[key |-> "Person",
        value |-> <<[key |-> "nick",
                     value |-> FieldValue_new(5, <<9>>)]>>]>>,
     <<[key |-> "I", value |-> <<>>]>>}

\* A call makes fewer locks than this, and numbers them after the handle
\* the heap gives next: the locks of the schemas come first.
LocksOfACall == 10

LocksMade == LocksOfACall * HEAP_ID

\* call: the last call, its arguments, and the area and the heap it found.
InitClasses ==
    /\ frames = <<>>
    /\ last = <<>>
    /\ EmptyHeap
    /\ METHOD_AREA = Some([classes |-> LoadedArea(EmployeeMethods),
                           reflection |-> <<>>])
    /\ threads = <<>>
    /\ NoClassfile
    /\ call = [fn |-> "new", classname |-> "", signature |-> <<>>,
               acc |-> <<>>, area |-> None, objects |-> <<>>, ref |-> 0]
    /\ result = NoResult
    /\ build \in Builds

Asked(fn, classname, sig, acc, ref) ==
    call' = [fn |-> fn, classname |-> classname, signature |-> sig,
             acc |-> acc, area |-> METHOD_AREA, objects |-> objects,
             ref |-> ref]

MaxSets == 1

\* The fields of the heap's instances that were set.
FieldsSet ==
    {<<h, k, i>> \in (DOMAIN objects) \X (1..3) \X (1..2) :
        /\ k <= Len(objects[h].value)
        /\ i <= Len(objects[h].value[k].value)
        /\ objects[h].value[k].value[i].value.value = <<7>>}

\* with_method_area(|area| area.get(classname))?.get_method(signature)
GetMethod(classname, sig) ==
    LET class == area_get([area |-> METHOD_AREA[1], made |-> LocksMade],
                          classname)
    IN  /\ METHOD_AREA' = Some(class.m.area)
        /\ result' = IF class.r # "Ok" THEN [r |-> class.r, v |-> <<>>]
                     ELSE get_method(class.m.area.classes[class.v[1]],
                                     sig)
        /\ Asked("get_method", classname, sig, <<>>, 0)
        /\ UNCHANGED <<frameVars, heapVars, threads, classVars, build>>

\* with_method_area(|area| area.fill_fields_hierarchy(classname, &mut acc))
FillFieldsHierarchy(classname, acc) ==
    LET filled == fill_fields_hierarchy(
                      [m |-> [area |-> METHOD_AREA[1],
                              made |-> LocksMade],
                       acc |-> acc],
                      classname)
    IN  /\ METHOD_AREA' = Some(filled.m.area)
        /\ result' = [r |-> filled.r, v |-> <<filled.acc>>]
        /\ Asked("fill_fields_hierarchy", classname, <<>>, acc, 0)
        /\ UNCHANGED <<frameVars, heapVars, threads, classVars, build>>

\* with_method_area(|area| area.create_instance_with_default(classname));
\* the caller keeps the instance on the heap.
CreateInstanceWithDefault(classname) ==
    LET instance == create_instance_with_default(
                        [area |-> METHOD_AREA[1], made |-> LocksMade],
                        classname)
        kept == allocate_instance(
                    [objects |-> objects, HEAP_ID |-> HEAP_ID],
                    instance.v[1])
    IN  /\ HEAP_ID <= MaxInstances
        /\ METHOD_AREA' = Some(instance.m.area)
        /\ IF instance.r = "Ok"
           THEN /\ objects' = kept.heap.objects
                /\ HEAP_ID' = kept.heap.HEAP_ID
                /\ result' = [r |-> "Ok", v |-> kept.v]
           ELSE /\ UNCHANGED heapVars
                /\ result' = [r |-> instance.r, v |-> <<>>]
        /\ Asked("create_instance_with_default", classname, <<>>, <<>>, 0)
        /\ UNCHANGED <<frameVars, threads, classVars, build>>

\* FieldValue::set on the i-th field of the k-th class of the instance
\* `ref`: every FieldValue that shares the lock shows the value.
FieldValue_set(ref, k, i, value) ==
    /\ ref \in DOMAIN objects
    /\ k \in 1..Len(objects[ref].value)
    /\ i \in 1..Len(objects[ref].value[k].value)
    /\ Cardinality(FieldsSet) < MaxSets
    /\ LET id == objects[ref].value[k].value[i].value.id
       IN  /\ objects' =
                 [h \in DOMAIN objects |->
                     [objects[h] EXCEPT
                         !.value = set_in_hierarchy(@, id, value)]]
           /\ METHOD_AREA' =
                 Some([METHOD_AREA[1] EXCEPT
                          !.classes =
                              [c \in DOMAIN @ |->
                                  set_in_class(@[c], id, value)]])
    /\ result' = NoResult
    /\ Asked("set", objects[ref].value[k].key, <<>>, <<>>, ref)
    /\ UNCHANGED <<frameVars, HEAP_ID, threads, classVars, build>>

NextClasses ==
    \/ \E classname \in ClassnamesAsked, acc \in AccSamples :
          FillFieldsHierarchy(classname, acc)
    \/ \E classname \in ClassnamesAsked :
          CreateInstanceWithDefault(classname)
    \/ \E ref \in 1..MaxInstances, k \in 1..3, i \in 1..2 :
          FieldValue_set(ref, k, i, <<7>>)

SpecClasses == InitClasses /\ [][NextClasses]_vars

\* The calls of get_method alone, on an Employee of each table of methods.
InitMethods ==
    /\ frames = <<>>
    /\ last = <<>>
    /\ EmptyHeap
    /\ \E keys \in MethodTables :
          METHOD_AREA = Some([classes |-> LoadedArea(keys),
                              reflection |-> <<>>])
    /\ threads = <<>>
    /\ NoClassfile
    /\ call = [fn |-> "new", classname |-> "", signature |-> <<>>,
               acc |-> <<>>, area |-> None, objects |-> <<>>, ref |-> 0]
    /\ result = NoResult
    /\ build \in Builds

NextMethods ==
    \E classname \in ClassnamesAsked, sig \in SignaturesAsked :
        GetMethod(classname, sig)

SpecMethods == InitMethods /\ [][NextMethods]_vars


-----------------------------------------------------------------------------
(* Claims about the classes                                                *)

\* The class the last call was made on, and the keys of its methods.
ClassAsked == METHOD_AREA[1].classes[call.classname]

KeysOf(class) == {class.methods[i].key : i \in 1..Len(class.methods)}

\* The method a class keeps under a key.
MethodUnder(class, key) ==
    class.methods[CHOOSE i \in 1..Len(class.methods) :
                      class.methods[i].key = key].value

C31_NameAloneIsNotFound ==
    /\ call.fn = "get_method"
    /\ call.classname = "Employee"
    /\ call.signature = <<"main">>
    /\ <<"main", "([Ljava/lang/String;)V">> \in KeysOf(ClassAsked)
    /\ result = MethodNotFound(<<"main">>)


\* The classes from the root down to a class, in the area the call left.
RECURSIVE ChainOf(_)
ChainOf(classname) ==
    IF METHOD_AREA[1].classes[classname].parent = None THEN <<classname>>
    ELSE Append(ChainOf(METHOD_AREA[1].classes[classname].parent[1]),
                classname)

\* A map of fields holds every field of a schema at its default.
AtDefaults(fields, fields_schema) ==
    /\ Len(fields) = Len(fields_schema)
    /\ \A i \in 1..Len(fields) :
          /\ fields[i].key = fields_schema[i].key
          /\ fields[i].value.value =
                DefaultOf(Len(fields_schema[i].value.value))
          /\ fields[i].value.value \in {<<0>>, <<0, 0>>}

\* The last call made an instance of a class of the area.
Created ==
    /\ call.fn = "create_instance_with_default"
    /\ call.classname \in DOMAIN METHOD_AREA[1].classes

\* The cell of the hierarchy of the class of the call, before and after.
HierarchyBefore ==
    IF call.classname \in DOMAIN call.area[1].classes
    THEN call.area[1].classes[call.classname].fields_hierarchy
    ELSE None

\* C32: create_instance_with_default(class) returns a new Instance whose
\* field map holds, for each class of the hierarchy, every schema field at
\* its declared default ([0] for one slot, [0, 0] for two); the field cells
\* are copies: setting a field of one instance changes neither the class's
\* cached hierarchy map nor any other instance; the hierarchy map is
\* computed on first use and reused.
C32_InstanceOfDefaults ==
    /\ Created =>
          /\ result.r = "Ok"
          /\ objects[result.v[1]].name = call.classname
          /\ Len(objects[result.v[1]].value) = Len(ChainOf(call.classname))
          /\ \A k \in 1..Len(ChainOf(call.classname)) :
                /\ objects[result.v[1]].value[k].key =
                      ChainOf(call.classname)[k]
                /\ AtDefaults(
                       objects[result.v[1]].value[k].value,
                       METHOD_AREA[1].classes[ChainOf(call.classname)[k]]
                           .fields_schema)
          /\ ClassAsked.fields_hierarchy # None
          /\ HierarchyBefore # None =>
                ClassAsked.fields_hierarchy = HierarchyBefore
          /\ \A c \in DOMAIN call.area[1].classes \ {call.classname} :
                METHOD_AREA[1].classes[c] = call.area[1].classes[c]
    /\ call.fn = "set" =>
          /\ METHOD_AREA = call.area
          /\ \A h \in DOMAIN objects \ {call.ref} :
                objects[h] = call.objects[h]

\* Two Employees were made, the second from the cached hierarchy, and the
\* salary of the first was set: the second has its default.
C32_Witness ==
    /\ call.fn = "set"
    /\ call.ref = 1
    /\ DOMAIN objects = {1, 2}
    /\ objects[1].name = "Employee"
    /\ objects[2].name = "Employee"
    /\ objects[1].value[3].value[2].key = "salary"
    /\ objects[1].value[3].value[2].value.value = <<7>>
    /\ objects[2].value[3].value[2].value.value = <<0, 0>>
    /\ METHOD_AREA[1].classes["Employee"].fields_hierarchy # None


\* IndexMap::get_index_of, from 1; 0 for a key that is not there.
IndexOfKey(map, key) ==
    IF IndexMap_contains_key(map, key)
    THEN IndexMap_get_full(map, key)[1].idx + 1
    ELSE 0

\* The last call filled a map for a class of the area.
Filled ==
    /\ call.fn = "fill_fields_hierarchy"
    /\ call.classname \in DOMAIN METHOD_AREA[1].classes

\* The classes of the chain of the call that the map lacked, the class
\* asked for and each ancestor up to the first one the map had.
Missing ==
    {k \in 1..Len(ChainOf(call.classname)) :
        \A j \in k..Len(ChainOf(call.classname)) :
            ~IndexMap_contains_key(call.acc, ChainOf(call.classname)[j])}

\* C33: fill_fields_hierarchy(class, acc) adds the class and its ancestors
\* to acc with every parent inserted before its child, the root first and
\* the class asked for last; it adds nothing and recurses no further for a
\* class already in acc, and leaves the entries acc had untouched.
C33_ParentsBeforeChildren ==
    Filled =>
        /\ result.r = "Ok"
        /\ Len(result.v[1]) = Len(call.acc) + Cardinality(Missing)
        /\ \A i \in 1..Len(call.acc) : result.v[1][i] = call.acc[i]
        /\ \A k \in Missing :
              LET at == IndexOfKey(result.v[1], ChainOf(call.classname)[k])
              IN  /\ at > Len(call.acc)
                  /\ AtDefaults(
                         result.v[1][at].value,
                         METHOD_AREA[1].classes[ChainOf(call.classname)[k]]
                             .fields_schema)
                  /\ k > 1 =>
                        /\ IndexOfKey(result.v[1],
                                      ChainOf(call.classname)[k - 1]) > 0
                        /\ IndexOfKey(result.v[1],
                                      ChainOf(call.classname)[k - 1]) < at
        /\ Missing # {} =>
              result.v[1][Len(result.v[1])].key = call.classname

\* The map had the root: a Person and an Employee were added after it, in
\* this order.
C33_Witness ==
    /\ Filled
    /\ call.classname = "Employee"
    /\ call.acc = <<[key |-> "java/lang/Object", value |-> <<>>]>>
    /\ Len(result.v[1]) = 3
    /\ result.v[1][2].key = "Person"
    /\ result.v[1][3].key = "Employee"


-----------------------------------------------------------------------------
(* Claims about the operand stack of an opcode                             *)

\* The slots an opcode pops, by the types of its operands.
OperandSlots(opcode) ==
    CASE opcode \in {"POP", "DUP", "INEG", "FNEG",
                     "ISTORE", "FSTORE", "ASTORE",
                     "ISTORE_0", "ISTORE_1", "ISTORE_2", "ISTORE_3",
                     "FSTORE_0", "FSTORE_1", "FSTORE_2", "FSTORE_3",
                     "ASTORE_0", "ASTORE_1", "ASTORE_2", "ASTORE_3",
                     "IFEQ", "IFNE", "IFLT", "IFGE", "IFGT", "IFLE",
                     "I2L", "I2F", "I2D", "I2B", "I2C", "I2S",
                     "F2I", "F2L", "F2D"} -> 1
      [] opcode \in {"POP2", "DUP_X1", "DUP2", "SWAP", "LNEG", "DNEG",
                     "LSTORE", "DSTORE",
                     "LSTORE_0", "LSTORE_1", "LSTORE_2", "LSTORE_3",
                     "DSTORE_0", "DSTORE_1", "DSTORE_2", "DSTORE_3",
                     "IALOAD", "LALOAD", "FALOAD", "DALOAD", "AALOAD",
                     "BALOAD", "CALOAD", "SALOAD",
                     "IADD", "ISUB", "IMUL", "IDIV", "IREM",
                     "FADD", "FSUB", "FMUL", "FDIV", "FREM",
                     "ISHL", "ISHR", "IUSHR", "IAND", "IOR", "IXOR",
                     "FCMPL", "FCMPG",
                     "IF_ICMPEQ", "IF_ICMPNE", "IF_ICMPLT", "IF_ICMPGE",
                     "IF_ICMPGT", "IF_ICMPLE", "IF_ACMPEQ", "IF_ACMPNE",
                     "L2I", "L2F", "L2D", "D2I", "D2L", "D2F"} -> 2
      [] opcode \in {"DUP_X2", "DUP2_X1", "LSHL", "LSHR", "LUSHR",
                     "IASTORE", "FASTORE", "AASTORE", "BASTORE",
                     "CASTORE", "SASTORE"} -> 3
      [] opcode \in {"DUP2_X2", "LASTORE", "DASTORE",
                     "LADD", "LSUB", "LMUL", "LDIV", "LREM",
                     "DADD", "DSUB", "DMUL", "DDIV", "DREM",
                     "LAND", "LOR", "LXOR",
                     "LCMP", "DCMPL", "DCMPG"} -> 4
      [] OTHER -> 0

\* The last call ran an opcode, through the dispatcher or through the
\* handler of its group, on a frame with fewer slots than the opcode pops.
RanShort ==
    /\ call.fn \in {"execute", "comparisons::process", "conversions::process"}
    /\ call.opcode # ""
    /\ Depth(Before) < OperandSlots(call.opcode)

\* C34: an opcode executed with fewer operand-stack slots than it pops ends
\* with a Stack error value, StackUnderflow or EmptyStack, returned from
\* its handler, which ends the run; this holds for the opcodes of every
\* group.
C34_ShortStackIsAnError ==
    RanShort =>
        /\ result.r \in {"StackUnderflow", "EmptyStack"}
        /\ Finished


\* The opcodes the dispatched ranges are said to handle.
ListedOpcodes ==
    {"ICONST_M1", "BIPUSH", "SIPUSH", "LDC", "LDC_W", "LDC2_W", "IASTORE",
     "INEG", "LNEG", "FNEG", "DNEG", "ISHL"}

\* What the catch-all arm of a group handler ends with: todo!() in
\* constants.rs, unreachable!() in the others.
CatchAll == {"panic_todo", "panic_unreachable"}

\* C35: every opcode byte listed inside a dispatched range is executed by
\* the handler of its group and never reaches the catch-all arm:
\* ICONST_M1, BIPUSH, SIPUSH, LDC, LDC_W and LDC2_W of the constants,
\* IASTORE of the stores, INEG, LNEG, FNEG, DNEG and ISHL of the
\* arithmetic.
C35_ListedOpcodesAreHandled ==
    \A opcode \in ListedOpcodes :
        Ran(opcode) => result.r \notin CatchAll


\* The change of the depth of the operand stack an opcode is to make: the
\* slots of its result less the slots of its operands.
NetSlots ==
    [opcode \in {"INEG", "LNEG", "FNEG", "DNEG", "LCMP", "DCMPL", "DCMPG",
                 "FCMPL", "FCMPG", "I2L", "L2I", "IASTORE", "LASTORE",
                 "DASTORE"} |->
        CASE opcode \in {"INEG", "LNEG", "FNEG", "DNEG"} -> 0
          [] opcode \in {"LCMP", "DCMPL", "DCMPG"} -> -3
          [] opcode \in {"FCMPL", "FCMPG", "L2I"} -> -1
          [] opcode = "I2L" -> 1
          [] opcode = "IASTORE" -> -3
          [] opcode \in {"LASTORE", "DASTORE"} -> -4]

\* The last call ran the opcode, through the dispatcher or through the
\* handler of its group, on a frame that had its operands and the room for
\* its result, and returned Ok.
RanWell(opcode) ==
    /\ call.fn \in {"execute", "comparisons::process", "conversions::process"}
    /\ call.opcode = opcode
    /\ Depth(Before) >= OperandSlots(opcode)
    /\ Depth(Before) + NetSlots[opcode] <= Before.operand_stack.capacity
    /\ result.r = "Ok"

\* C36: every opcode changes the depth of the operand stack by exactly the
\* slot count of its declared result less that of its declared operands:
\* a negation by 0, LCMP, DCMPL and DCMPG by -3, FCMPL and FCMPG by -1,
\* I2L by +1, L2I by -1, IASTORE by -3, LASTORE and DASTORE by -4.
C36_DepthChangesByTheSlots ==
    \A opcode \in DOMAIN NetSlots :
        RanWell(opcode) =>
            Depth(Top) = Depth(Before) + NetSlots[opcode]


-----------------------------------------------------------------------------
(* The program counter: step_pc is called on a frame a few times, as the   *)
(* branches of a method of up to 65535 bytes call it.                      *)

\* The steps: both ends of an i16, the step of next_pc, and short ones.
StepSamples == {-(2^15), -(2^15) + 1, -3, -1, 0, 1, 2^15 - 1}

MaxSteps == 3

InitPc ==
    /\ frames = <<StackFrame_new(MaxLocals, 0, <<>>, "Main")>>
    /\ last = <<>>
    /\ EmptyHeap
    /\ SingleThread
    /\ NoClassfile
    /\ call = [fn |-> "new", code |-> -1, opcode |-> "", before |-> <<>>,
               step |-> 0, steps |-> 0]
    /\ result = NoResult
    /\ build \in Builds

\* frame.step_pc(step)
StepPc(step) ==
    /\ ~IsPanic(result.r)
    /\ call.steps < MaxSteps
    /\ LET x == last_mut(frames, LAMBDA frame : step_pc(frame, step))
       IN  /\ frames' = x.fs
           /\ result' = [r |-> x.r, v |-> x.v]
    /\ call' = [fn |-> "step_pc", code |-> -1, opcode |-> "",
                before |-> frames, step |-> step, steps |-> call.steps + 1]
    /\ UNCHANGED <<last, heapVars, areaVars, classVars, build>>

NextPc == \E step \in StepSamples : StepPc(step)

SpecPc == InitPc /\ [][NextPc]_vars

\* C37: step_pc(delta) sets pc to pc + delta for every signed 16-bit delta
\* with pc + delta >= 0, delta = -32768 included: a negative branch that is
\* taken moves pc back by exactly its magnitude, and pc never wraps.
C37_StepPcAddsTheDelta ==
    (/\ call.fn = "step_pc"
     /\ Before.pc >= 0
     /\ Before.pc + call.step >= 0) =>
        /\ result.r = "Ok"
        /\ Top.pc = Before.pc + call.step


\* The last call, an opcode run by execute() or a push on the frame,
\* returned an error value.
ReturnedAnError ==
    /\ call.fn \in {"execute", "push"}
    /\ result.r \notin {"Ok", "Return"}
    /\ ~IsPanic(result.r)

\* C38: an opcode or a push that returns an error leaves the frame exactly
\* as it was before: a push of an i64 or an f64 with one slot free, and
\* DUP_X1, DUP_X2, DUP2, DUP2_X1 and DUP2_X2 when the slots they duplicate
\* do not fit.
C38_ErrorLeavesTheFrame ==
    ReturnedAnError => frames = call.before


\* The handle and the index get_array_value was given name no element:
\* the handle is 0 or is not that of an array, or the index is negative or
\* not below the count of the elements.
NoSuchElement(objs, array_ref, index) ==
    \/ array_ref = 0
    \/ array_ref \notin DOMAIN objs
    \/ objs[array_ref].kind # "Array"
    \/ index < 0
    \/ index >= Len(objs[array_ref].value) \div Array_size(objs[array_ref].name)

\* C39: get_array_value returns InvalidArrayAccess(index), and never
\* crashes, when the handle is 0 or is not an array's and when the index
\* is negative or not below the element count; the heap is unchanged.
C39_NoElementIsInvalidArrayAccess ==
    [][(/\ call'.fn = "get_array_value"
        /\ NoSuchElement(objects, call'.args.ref, call'.args.index)) =>
           /\ result' = [r |-> "InvalidArrayAccess",
                         v |-> <<call'.args.index>>]
           /\ objects' = objects
           /\ HEAP_ID' = HEAP_ID]_vars

=============================================================================
